---------------------------- MODULE Spec2Model ----------------------------
(***************************************************************************)
(* Model of the core of riscv_fuzz_test:                                   *)
(*   - the record decoder  (src/src/output_parser/common.rs)               *)
(*   - the exception-list comparator (src/src/output_diff/diff/mod.rs)     *)
(*                                                                         *)
(* A u64 is modelled as the tuple of its eight bytes, most significant     *)
(* byte first (the way the value is written in hexadecimal), so that       *)
(* 0xFEEDC0DE2000 is <<0,0,254,237,192,222,32,0>>.  The bytes of a buffer  *)
(* are naturals in 0..255.  Rust's 0-based offset pos is kept 0-based; the *)
(* byte at offset k of a slice d is d[k+1].                                *)
(***************************************************************************)
EXTENDS Integers, Sequences, FiniteSets, TLC

VARIABLES
    \* ---- decoder: parse_common_binary_data ----
    data,             \* the input buffer (&[u8])
    pos,              \* the scan position
    pc,               \* "scan" | "done" | "panicked" | "idle"
    output_items,     \* result.output_items
    register_dumps,   \* result.register_dumps
    exception_dumps,  \* result.exception_dumps
    scan_log,         \* one entry per loop iteration: where it started, what it consumed
    \* ---- comparator: compare_exception_dump_lists ----
    list1, list2,     \* the two exception lists
    sim1_type, sim2_type,
    cmp_pc,           \* "ready" | "called" | "called_twice" | "idle"
    diff1,            \* the ExceptionListDiff returned by the first call
    diff2,            \* the ExceptionListDiff returned by a second call on the same input
    raw_diffs,        \* raw_diffs_for_categorization of the first call
    \* ---- register comparison: compare_registers_dumps ----
    dump1, dump2,     \* the two register dumps
    reg_pc,           \* "ready" | "compared" | "compared_both" | "idle"
    regs_diff,        \* compare_registers_dumps(dump1, dump2, ..)
    regs_diff_rev,    \* compare_registers_dumps(dump2, dump1, ..)
    \* ---- minimizer: extract_minimal_instructions_for_regs ----
    insts,            \* the instruction list
    target_regs,      \* the target registers
    min_pc,           \* "ready" | "minimized" | "minimized_twice" | "idle"
    min_result,       \* the instructions returned for (insts, target_regs)
    min_again,        \* the instructions returned for (min_result, target_regs)
    \* ---- standard output: parse_standard_output_from_file ----
    std_pc,           \* "idle" | "converted"
    std_output,       \* the StandardExecutionOutput returned, None before
    \* ---- tokenizer: get_regs_in_inst ----
    inst_text,        \* the instruction text
    tok_pc,           \* "ready" | "tokenized" | "idle"
    regs_found,       \* get_regs_in_inst(inst_text)
    \* ---- batch: run_parallel_random_tests ----
    num_threads,      \* the number of test instances
    counter,          \* the AtomicUsize handing out test ids
    pool,             \* "unbuilt" | "built" | "failed" | "idle"
    worker_pc,        \* per instance: "waiting" | "running" | "finished" | "skipped"
    test_id,          \* per instance: the id it fetched, None before
    test_dir,         \* per instance: the directory name it formatted, None before
    run_result,       \* per instance: what run_single_random_test returned, None before
    closure_result,   \* per instance: what the closure returned, None before
    batch_result,     \* what run_parallel_random_tests returned, None before
    \* ---- pipeline: process_assembly_file ----
    format,           \* OutputFormat
    auto_retry,       \* the auto_retry argument
    pa_pc,            \* the position in process_assembly_file
    pa_failures,      \* the simulator runs and parses that failed so far
    initial_diff,     \* the diff of the first comparison, None before
    new_diff,         \* the diff of the comparison after the retry, None before
    retry_count,      \* the illegal-instruction removal retries performed
    minimizer_calls,  \* the calls of extract_minimal_instructions_for_regs made
    minimal_runs,     \* the calls of run_minimal_analysis made
    pa_result         \* what process_assembly_file returned, None before

decVars == <<data, pos, pc, output_items, register_dumps, exception_dumps, scan_log>>
cmpVars == <<list1, list2, sim1_type, sim2_type, cmp_pc, diff1, diff2, raw_diffs>>
regVars == <<dump1, dump2, reg_pc, regs_diff, regs_diff_rev>>
minVars == <<insts, target_regs, min_pc, min_result, min_again>>
stdVars == <<std_pc, std_output>>
tokVars == <<inst_text, tok_pc, regs_found>>
parVars == <<num_threads, counter, pool, worker_pc, test_id, test_dir, run_result,
             closure_result, batch_result>>
pipeVars == <<format, auto_retry, pa_pc, pa_failures, initial_diff, new_diff, retry_count,
              minimizer_calls, minimal_runs, pa_result>>
extVars == <<tokVars, parVars, pipeVars>>
vars == <<decVars, cmpVars, regVars, minVars, stdVars, extVars>>

\* Option<T>: None is the empty tuple, Some(x) the one-element tuple.
None == <<>>
Some(x) == <<x>>
IsSome(o) == Len(o) = 1
Unwrap(o) == o[1]

Min2(a, b) == IF a <= b THEN a ELSE b

-----------------------------------------------------------------------------
(***************************************************************************)
(* Marker constants and payload lengths                                    *)
(***************************************************************************)
MARKER_REGISTERS_INT_ONLY      == <<0, 0, 254, 237, 192, 222, 32, 0>>  \* 0xFEEDC0DE2000
MARKER_REGISTERS_INT_AND_FLOAT == <<0, 0, 254, 237, 192, 222, 16, 0>>  \* 0xFEEDC0DE1000
MARKER_EXCEPTION_CSR           == <<0, 0, 11, 173, 192, 222, 16, 0>>   \* 0xBADC0DE1000

MARKER_LEN == 8
INT_PAYLOAD_LEN == 400
INT_FLOAT_PAYLOAD_LEN == 664
EXCEPTION_PAYLOAD_LEN == 72

\* MarkerType
RegistersIntOnly     == [kind |-> "RegistersIntOnly"]
RegistersIntAndFloat == [kind |-> "RegistersIntAndFloat"]
ExceptionCSR         == [kind |-> "ExceptionCSR"]
Unknown(v)           == [kind |-> "Unknown", val |-> v]

\* u64::from_le_bytes on a slice of at least 8 bytes; a shorter slice is
\* zero-padded first.
read_u64_le(bytes) ==
    LET padded == IF Len(bytes) < 8
                  THEN [i \in 1..8 |-> IF i <= Len(bytes) THEN bytes[i] ELSE 0]
                  ELSE bytes
    IN  <<padded[8], padded[7], padded[6], padded[5],
          padded[4], padded[3], padded[2], padded[1]>>

\* u64::to_le_bytes
to_le_bytes(v) == <<v[8], v[7], v[6], v[5], v[4], v[3], v[2], v[1]>>

get_marker_type(marker) ==
    IF marker = MARKER_REGISTERS_INT_ONLY THEN Some(RegistersIntOnly)
    ELSE IF marker = MARKER_REGISTERS_INT_AND_FLOAT THEN Some(RegistersIntAndFloat)
    ELSE IF marker = MARKER_EXCEPTION_CSR THEN Some(ExceptionCSR)
    ELSE None

\* value & 0xFFFFFFFF: the four least significant bytes.
Low32(value) == <<value[5], value[6], value[7], value[8]>>

\* Mutant of looks_like_marker: the magic constants are not looked for.
looks_like_marker_fewBytesOnly(value) ==
    Cardinality({to_le_bytes(value)[i] : i \in 1..8}) <= 3

looks_like_marker(value) ==
    LET bytes == to_le_bytes(value)
        unique_bytes == {bytes[i] : i \in 1..8}
    IN  \/ Cardinality(unique_bytes) <= 3
        \/ Low32(value) = <<222, 173, 190, 239>>   \* 0xDEADBEEF
        \/ Low32(value) = <<202, 254, 186, 190>>   \* 0xCAFEBABE
        \/ Low32(value) = <<254, 237, 250, 206>>   \* 0xFEEDFACE
        \/ Low32(value) = <<11, 173, 192, 222>>    \* 0x0BADC0DE

-----------------------------------------------------------------------------
(***************************************************************************)
(* try_parse_ascii_text                                                    *)
(***************************************************************************)
is_ascii_graphic(b)    == b >= 33 /\ b <= 126
is_ascii_whitespace(b) == b \in {32, 9, 10, 12, 13}

\* The first branch of the loop body that sets has_printable.
IsTextByte(b) == b < 128 /\ (is_ascii_graphic(b) \/ is_ascii_whitespace(b))

\* The bytes at which the loop breaks: NUL (consumed), a control byte other
\* than \n \r \t that is not ASCII whitespace, or a byte above 127 (both left
\* unconsumed).
IsBreakByte(b) ==
    /\ b # 0
    /\ ~IsTextByte(b)
    /\ \/ (b < 32 /\ b # 10 /\ b # 13 /\ b # 9)
       \/ b > 127

\* The byte values at which the loop stops, and those that set has_printable.
StopBytes == {b \in 0..255 : b = 0 \/ IsBreakByte(b)}
TextBytes == {b \in 0..255 : IsTextByte(b)}

\* Index of the first stop byte of d, Len(d) + 1 when there is none.
FirstStop(d) ==
    LET stops == {i \in 1..Len(d) : d[i] \in StopBytes}
    IN  IF stops = {} THEN Len(d) + 1
        ELSE CHOOSE i \in stops : \A j \in stops : i <= j

\* The for loop of try_parse_ascii_text in closed form.  Every byte before the
\* first NUL or break byte sets text_end = i + 1 (the text branch and the
\* final else branch both do); a NUL sets text_end = i + 1 and stops; a break
\* byte stops without touching text_end.  has_printable is set by the text
\* branch alone.
TextLoop(d) ==
    LET first == FirstStop(d)
    IN  [text_end |-> IF first <= Len(d) /\ d[first] = 0 THEN first ELSE first - 1,
         has_printable |-> \E i \in 1..(first - 1) : d[i] \in TextBytes]

\* Mutant of try_parse_ascii_text: the last byte of the run is dropped from
\* the text whether or not it is a NUL.
try_parse_ascii_text_dropLast(d) ==
    LET r == TextLoop(d)
    IN  IF r.text_end > 0 /\ r.has_printable
        THEN Some([text |-> SubSeq(d, 1, r.text_end - 1), consumed |-> r.text_end])
        ELSE None

try_parse_ascii_text(d) ==
    LET r == TextLoop(d)
        text_bytes == SubSeq(d, 1, r.text_end)
        stripped == IF r.text_end > 0 /\ text_bytes[r.text_end] = 0
                    THEN SubSeq(text_bytes, 1, r.text_end - 1)
                    ELSE text_bytes
    IN  IF r.text_end > 0 /\ r.has_printable
        THEN Some([text |-> stripped, consumed |-> r.text_end])
        ELSE None

-----------------------------------------------------------------------------
(***************************************************************************)
(* Fixed-length payload parsers                                            *)
(***************************************************************************)
\* read_u64_le(&data[off..off + 8])
Word(d, off) == read_u64_le(SubSeq(d, off + 1, off + 8))

\* The CoreCSRs literal of parse_int_registers / parse_int_and_float_registers.
CoreCSRsAt(d) ==
    [mstatus    |-> Word(d, 256), misa      |-> Word(d, 264),
     medeleg    |-> Word(d, 272), mideleg   |-> Word(d, 280),
     mie        |-> Word(d, 288), mtvec     |-> Word(d, 296),
     mcounteren |-> Word(d, 304), mscratch  |-> Word(d, 312),
     mepc       |-> Word(d, 320), mcause    |-> Word(d, 328),
     mtval      |-> Word(d, 336), mip       |-> Word(d, 344),
     mcycle     |-> Word(d, 352), minstret  |-> Word(d, 360),
     mvendorid  |-> Word(d, 368), marchid   |-> Word(d, 376),
     mimpid     |-> Word(d, 384), mhartid   |-> Word(d, 392)]

parse_int_registers(d) ==
    IF Len(d) < INT_PAYLOAD_LEN THEN None
    ELSE Some([registers |-> [i \in 1..32 |-> Word(d, (i - 1) * 8)],
               core_csrs |-> CoreCSRsAt(d),
               consumed  |-> INT_PAYLOAD_LEN])

parse_int_and_float_registers(d) ==
    IF Len(d) < INT_FLOAT_PAYLOAD_LEN THEN None
    ELSE Some([int_registers   |-> [i \in 1..32 |-> Word(d, (i - 1) * 8)],
               core_csrs       |-> CoreCSRsAt(d),
               fcsr            |-> Word(d, 400),
               float_registers |-> [i \in 1..32 |-> Word(d, 408 + (i - 1) * 8)],
               consumed        |-> INT_FLOAT_PAYLOAD_LEN])

\* Mutant of parse_exception_csrs: no length check; the missing bytes of a
\* short payload read as zero.
parse_exception_csrs_unchecked(d) ==
    LET p == [i \in 1..EXCEPTION_PAYLOAD_LEN |-> IF i <= Len(d) THEN d[i] ELSE 0]
    IN  Some([csrs |-> [mstatus |-> Word(p, 0),  mcause   |-> Word(p, 8),
                        mepc    |-> Word(p, 16), mtval    |-> Word(p, 24),
                        mie     |-> Word(p, 32), mip      |-> Word(p, 40),
                        mtvec   |-> Word(p, 48), mscratch |-> Word(p, 56),
                        mhartid |-> Word(p, 64)],
              consumed |-> Min2(Len(d), EXCEPTION_PAYLOAD_LEN)])

\* Mutant of parse_exception_csrs: mcause and mepc read from each other's offset.
parse_exception_csrs_swapped(d) ==
    IF Len(d) < EXCEPTION_PAYLOAD_LEN THEN None
    ELSE Some([csrs |-> [mstatus |-> Word(d, 0),  mcause   |-> Word(d, 16),
                         mepc    |-> Word(d, 8),  mtval    |-> Word(d, 24),
                         mie     |-> Word(d, 32), mip      |-> Word(d, 40),
                         mtvec   |-> Word(d, 48), mscratch |-> Word(d, 56),
                         mhartid |-> Word(d, 64)],
               consumed |-> EXCEPTION_PAYLOAD_LEN])

parse_exception_csrs(d) ==
    IF Len(d) < EXCEPTION_PAYLOAD_LEN THEN None
    ELSE Some([csrs |-> [mstatus |-> Word(d, 0),  mcause   |-> Word(d, 8),
                         mepc    |-> Word(d, 16), mtval    |-> Word(d, 24),
                         mie     |-> Word(d, 32), mip      |-> Word(d, 40),
                         mtvec   |-> Word(d, 48), mscratch |-> Word(d, 56),
                         mhartid |-> Word(d, 64)],
               consumed |-> EXCEPTION_PAYLOAD_LEN])

\* The `all_data` vector of a RegisterData item: the CSRs in struct order.
CoreCSRsVec(c) ==
    <<c.mstatus, c.misa, c.medeleg, c.mideleg, c.mie, c.mtvec, c.mcounteren,
      c.mscratch, c.mepc, c.mcause, c.mtval, c.mip, c.mcycle, c.minstret,
      c.mvendorid, c.marchid, c.mimpid, c.mhartid>>

\* Mutant of DumpPosition: the record is stamped with the offset of its payload.
DumpPosition_Payload(p) == p

\* `position: pos - 8`, evaluated after `pos += 8`: the offset of the marker.
DumpPosition(p) == p - MARKER_LEN

\* Mutant of chunk_size: always a full 8-byte chunk.
chunk_size_always8(len, p) == 8

\* std::cmp::min(8, data.len() - pos)
chunk_size(len, p) == Min2(8, len - p)

-----------------------------------------------------------------------------
(***************************************************************************)
(* parse_common_binary_data: one action per iteration of the while loop    *)
(***************************************************************************)
\* &data[pos..]
Rest(d, p) == SubSeq(d, p + 1, Len(d))

LogEntry(start, consumed, first, count) ==
    [start |-> start, consumed |-> consumed, first |-> first, count |-> count]

StdIdle == std_pc = "idle" /\ std_output = None

TokIdle == inst_text = <<>> /\ tok_pc = "idle" /\ regs_found = <<>>

ParIdle ==
    /\ num_threads = 0 /\ counter = 0 /\ pool = "idle"
    /\ worker_pc = <<>> /\ test_id = <<>> /\ test_dir = <<>>
    /\ run_result = <<>> /\ closure_result = <<>> /\ batch_result = None

PipeIdle ==
    /\ format = "Standard" /\ auto_retry = FALSE /\ pa_pc = "idle"
    /\ pa_failures = {} /\ initial_diff = None /\ new_diff = None
    /\ retry_count = 0 /\ minimizer_calls = <<>> /\ minimal_runs = 0
    /\ pa_result = None

ExtIdle == TokIdle /\ ParIdle /\ PipeIdle

RegIdle ==
    /\ dump1 = None /\ dump2 = None
    /\ reg_pc = "idle" /\ regs_diff = None /\ regs_diff_rev = None

MinIdle ==
    /\ insts = <<>> /\ target_regs = <<>>
    /\ min_pc = "idle" /\ min_result = <<>> /\ min_again = <<>>

CmpIdle ==
    /\ list1 = <<>> /\ list2 = <<>>
    /\ sim1_type = "Spike" /\ sim2_type = "Rocket"
    /\ cmp_pc = "idle" /\ diff1 = None /\ diff2 = None /\ raw_diffs = <<>>

\* The conditions under which an iteration takes each branch of the loop body.
\* while pos < data.len()
InLoop == pc = "scan" /\ pos < Len(data)
\* if let Some(..) = try_parse_ascii_text(&data[pos..])
TextFound == IsSome(try_parse_ascii_text(Rest(data, pos)))
\* if pos + 8 <= data.len()
MarkerReadable == pos + 8 <= Len(data)
\* read_u64_le(&data[pos..pos + 8])
PotentialMarker == read_u64_le(SubSeq(data, pos + 1, pos + 8))

TextStepGuard == InLoop /\ TextFound
KnownMarkerStepGuard ==
    InLoop /\ ~TextFound /\ MarkerReadable /\ IsSome(get_marker_type(PotentialMarker))
UnknownMarkerStepGuard ==
    /\ InLoop /\ ~TextFound /\ MarkerReadable
    /\ get_marker_type(PotentialMarker) = None
    /\ looks_like_marker(PotentialMarker)
UnknownBinaryStepGuard ==
    /\ InLoop /\ ~TextFound
    /\ MarkerReadable => (/\ get_marker_type(PotentialMarker) = None
                          /\ ~looks_like_marker(PotentialMarker))
ReturnOkGuard == pc = "scan" /\ pos >= Len(data)

\* if let Some((text, consumed)) = try_parse_ascii_text(&data[pos..])
TextStep ==
    /\ TextStepGuard
    /\ LET t == try_parse_ascii_text(Rest(data, pos))
       IN  /\ IsSome(t)
           /\ output_items' = IF Unwrap(t).text # <<>>
                              THEN Append(output_items,
                                          [tag |-> "AsciiText", text |-> Unwrap(t).text])
                              ELSE output_items
           /\ pos' = pos + Unwrap(t).consumed
           /\ scan_log' = Append(scan_log,
                 LogEntry(pos, Unwrap(t).consumed, Len(output_items) + 1,
                          IF Unwrap(t).text # <<>> THEN 1 ELSE 0))
    /\ UNCHANGED <<data, pc, register_dumps, exception_dumps, cmpVars, regVars, minVars, stdVars, extVars>>

\* The RegistersDump pushed for an integer-only record.
IntOnlyDump(marker_type, r, position) ==
    [dump_type |-> marker_type,
     int_registers |-> r.registers,
     core_csrs |-> r.core_csrs,
     float_registers |-> None,
     float_csr |-> None,
     position |-> position]

\* Mutant of IntAndFloatDump: the float CSR is left out of the dump.
IntAndFloatDump_noFcsr(marker_type, r, position) ==
    [dump_type |-> marker_type,
     int_registers |-> r.int_registers,
     core_csrs |-> r.core_csrs,
     float_registers |-> Some(r.float_registers),
     float_csr |-> None,
     position |-> position]

\* The RegistersDump pushed for an integer-and-float record.
IntAndFloatDump(marker_type, r, position) ==
    [dump_type |-> marker_type,
     int_registers |-> r.int_registers,
     core_csrs |-> r.core_csrs,
     float_registers |-> Some(r.float_registers),
     float_csr |-> Some(r.fcsr),
     position |-> position]

\* The payload match of a known marker, entered with p = pos after `pos += 8`.
\* Gives the items and dumps to push and the bytes consumed.
ParsePayload(marker_type, p) ==
    LET rest == Rest(data, p)
        nothing == [items |-> <<>>, regs |-> <<>>, excs |-> <<>>, consumed |-> 0]
    IN  CASE marker_type = RegistersIntOnly ->
               LET r == parse_int_registers(rest)
               IN  IF IsSome(r)
                   THEN [items |-> <<[tag |-> "RegisterData",
                                      marker_type |-> marker_type,
                                      registers |-> Unwrap(r).registers
                                                    \o CoreCSRsVec(Unwrap(r).core_csrs),
                                      position |-> DumpPosition(p)]>>,
                         regs |-> <<IntOnlyDump(marker_type, Unwrap(r), DumpPosition(p))>>,
                         excs |-> <<>>,
                         consumed |-> Unwrap(r).consumed]
                   ELSE nothing
          [] marker_type = RegistersIntAndFloat ->
               LET r == parse_int_and_float_registers(rest)
               IN  IF IsSome(r)
                   THEN [items |-> <<[tag |-> "RegisterData",
                                      marker_type |-> marker_type,
                                      registers |-> Unwrap(r).int_registers
                                                    \o CoreCSRsVec(Unwrap(r).core_csrs)
                                                    \o <<Unwrap(r).fcsr>>
                                                    \o Unwrap(r).float_registers,
                                      position |-> DumpPosition(p)]>>,
                         regs |-> <<IntAndFloatDump(marker_type, Unwrap(r), DumpPosition(p))>>,
                         excs |-> <<>>,
                         consumed |-> Unwrap(r).consumed]
                   ELSE nothing
          [] marker_type = ExceptionCSR ->
               LET r == parse_exception_csrs(rest)
               IN  IF IsSome(r)
                   THEN [items |-> <<[tag |-> "ExceptionData",
                                      csrs |-> Unwrap(r).csrs,
                                      position |-> DumpPosition(p)]>>,
                         regs |-> <<>>,
                         excs |-> <<[csrs |-> Unwrap(r).csrs,
                                     position |-> DumpPosition(p),
                                     inst_trace |-> None]>>,
                         consumed |-> Unwrap(r).consumed]
                   ELSE nothing
          [] OTHER -> nothing

\* if let Some(marker_type) = get_marker_type(potential_marker)
KnownMarkerStep ==
    /\ KnownMarkerStepGuard
    /\ LET potential_marker == PotentialMarker
           mt == get_marker_type(potential_marker)
       IN  /\ IsSome(mt)
           /\ LET payload == ParsePayload(Unwrap(mt), pos + MARKER_LEN)
              IN  /\ output_items' =
                        Append(output_items,
                               [tag |-> "MagicMarker", marker |-> potential_marker,
                                marker_type |-> Unwrap(mt), position |-> pos])
                        \o payload.items
                  /\ register_dumps' = register_dumps \o payload.regs
                  /\ exception_dumps' = exception_dumps \o payload.excs
                  /\ pos' = pos + MARKER_LEN + payload.consumed
                  /\ scan_log' = Append(scan_log,
                        LogEntry(pos, MARKER_LEN + payload.consumed,
                                 Len(output_items) + 1, 1 + Len(payload.items)))
    /\ UNCHANGED <<data, pc, cmpVars, regVars, minVars, stdVars, extVars>>

\* else if looks_like_marker(potential_marker)
UnknownMarkerStep ==
    /\ UnknownMarkerStepGuard
    /\ LET potential_marker == PotentialMarker
       IN  /\ output_items' =
                 Append(output_items,
                        [tag |-> "MagicMarker", marker |-> potential_marker,
                         marker_type |-> Unknown(potential_marker), position |-> pos])
           /\ pos' = pos + MARKER_LEN
           /\ scan_log' = Append(scan_log,
                 LogEntry(pos, MARKER_LEN, Len(output_items) + 1, 1))
    /\ UNCHANGED <<data, pc, register_dumps, exception_dumps, cmpVars, regVars, minVars, stdVars, extVars>>

\* The fallback: up to 8 bytes as UnknownBinary.  The slice
\* data[pos..pos + chunk_size] panics when it reaches past the buffer.
UnknownBinaryStep ==
    /\ UnknownBinaryStepGuard
    /\ LET size == chunk_size(Len(data), pos)
       IN  IF pos + size > Len(data)
           THEN /\ pc' = "panicked"
                /\ UNCHANGED <<pos, output_items, scan_log>>
           ELSE /\ output_items' =
                      Append(output_items,
                             [tag |-> "UnknownBinary",
                              data |-> SubSeq(data, pos + 1, pos + size),
                              position |-> pos])
                /\ pos' = pos + size
                /\ scan_log' = Append(scan_log,
                      LogEntry(pos, size, Len(output_items) + 1, 1))
                /\ pc' = pc
    /\ UNCHANGED <<data, register_dumps, exception_dumps, cmpVars, regVars, minVars, stdVars, extVars>>

\* The loop condition fails (or the buffer is empty): Ok(result).
ReturnOk ==
    /\ ReturnOkGuard
    /\ pc' = "done"
    /\ UNCHANGED <<data, pos, output_items, register_dumps, exception_dumps,
                   scan_log, cmpVars, regVars, minVars, stdVars, extVars>>

\* The warnings of parse_standard_output_from_file: one per UnknownBinary item,
\* in item order, each given by the two numbers its text is formatted from.
RECURSIVE UnknownBinaryWarnings(_, _)
UnknownBinaryWarnings(items, i) ==
    IF i > Len(items) THEN <<>>
    ELSE IF items[i].tag = "UnknownBinary"
    THEN <<[bytes |-> Len(items[i].data), position |-> items[i].position]>>
             \o UnknownBinaryWarnings(items, i + 1)
    ELSE UnknownBinaryWarnings(items, i + 1)

\* Mutant of Last: the first element.
Last_first(v) == IF v = <<>> THEN None ELSE Some(v[1])

\* Vec::last().cloned()
Last(v) == IF v = <<>> THEN None ELSE Some(v[Len(v)])

\* The StandardExecutionOutput built from a CommonExecutionOutput.
StandardExecutionOutput(items, regs, excs) ==
    [exceptions |-> excs,
     register_dump |-> Last(regs),
     conversion_stats |->
        [original_exception_count |-> Len(excs),
         original_register_count |-> Len(regs),
         conversion_successful |-> UnknownBinaryWarnings(items, 1) = <<>>,
         warnings |-> UnknownBinaryWarnings(items, 1)]]

\* parse_standard_output_from_file, once the common parser has returned Ok.
ParseStandardOutput ==
    /\ pc = "done"
    /\ std_pc = "idle"
    /\ std_pc' = "converted"
    /\ std_output' = Some(StandardExecutionOutput(output_items, register_dumps,
                                                  exception_dumps))
    /\ UNCHANGED <<decVars, cmpVars, regVars, minVars, extVars>>

DecNext ==
    \/ TextStep \/ KnownMarkerStep \/ UnknownMarkerStep \/ UnknownBinaryStep \/ ReturnOk
    \/ ParseStandardOutput

-----------------------------------------------------------------------------
(***************************************************************************)
(* Input buffers of the decoder: every concatenation of at most MaxChunks  *)
(* chunks.  The chunks are single bytes of each class the text scan        *)
(* distinguishes, the three known markers, words the marker heuristic      *)
(* accepts, and payloads of full and of short length.                      *)
(***************************************************************************)
MaxChunks == 3

\* Word i of a payload, as its bytes in buffer (little-endian) order.  Word 0
\* holds NUL, control, printable and high bytes; the others are printable.
PayloadWord(i) ==
    IF i = 0 THEN <<1, 0, 128, 255, 7, 65, 0, 9>>
    ELSE <<33 + i, 65, 97, 98, 99, 100, 101, 102>>

\* Words from .. to-1 laid out one after the other.
Payload(from, to) ==
    [k \in 1..(8 * (to - from)) |-> PayloadWord(from + ((k - 1) \div 8))[((k - 1) % 8) + 1]]

\* Chunks that may stand anywhere in a buffer.
Chunks ==
    { <<0>>, <<65>>, <<10>>, <<7>>, <<127>>,
      to_le_bytes(MARKER_REGISTERS_INT_ONLY),
      to_le_bytes(MARKER_REGISTERS_INT_AND_FLOAT),
      to_le_bytes(MARKER_EXCEPTION_CSR),
      <<239, 190, 173, 222, 1, 2, 3, 4>>,
      <<7, 7, 7, 7, 128, 128, 0, 0>>,
      Payload(0, 9),
      SubSeq(Payload(0, 9), 1, 71) }

EndsWith(b, c) ==
    Len(b) >= Len(c) /\ SubSeq(b, Len(b) - Len(c) + 1, Len(b)) = c

\* The long payloads stand only where a register record can: the 400 bytes of
\* the integer part after a register marker, the 264 bytes of the float part
\* after an integer part that follows the IntAndFloat marker.  A whole
\* integer-only record in one piece stands after a printable byte, after a
\* printable byte and its NUL, and after the integer part of a record.
LongChunksAfter(b) ==
    (IF \/ EndsWith(b, <<65>>)
        \/ EndsWith(b, <<65, 0>>)
        \/ EndsWith(b, Payload(0, 50))
     THEN {to_le_bytes(MARKER_REGISTERS_INT_ONLY) \o Payload(0, 50)} ELSE {})
    \cup
    (IF \/ EndsWith(b, to_le_bytes(MARKER_REGISTERS_INT_ONLY))
        \/ EndsWith(b, to_le_bytes(MARKER_REGISTERS_INT_AND_FLOAT))
     THEN {Payload(0, 50)} ELSE {})
    \cup
    (IF EndsWith(b, to_le_bytes(MARKER_REGISTERS_INT_AND_FLOAT) \o Payload(0, 50))
     THEN {Payload(50, 83)} ELSE {})

RECURSIVE BuffersOf(_)
BuffersOf(n) ==
    IF n = 0 THEN {<<>>}
    ELSE UNION {{b \o c : c \in Chunks \cup LongChunksAfter(b)} : b \in BuffersOf(n - 1)}

Buffers == UNION {BuffersOf(n) : n \in 0..MaxChunks}

DecInit ==
    /\ data \in Buffers
    /\ pos = 0
    /\ pc = "scan"
    /\ output_items = <<>>
    /\ register_dumps = <<>>
    /\ exception_dumps = <<>>
    /\ scan_log = <<>>
    /\ CmpIdle /\ RegIdle /\ MinIdle /\ StdIdle /\ ExtIdle

SpecDecode == DecInit /\ [][DecNext]_vars

-----------------------------------------------------------------------------
(***************************************************************************)
(* Properties of the decoder                                               *)
(***************************************************************************)
IsRecordItem(it) == it.tag \in {"RegisterData", "ExceptionData"}
HasOffset(it) == it.tag # "AsciiText"

\* The offset-carrying items, in emission order.
OffsetItems == SelectSeq(output_items, HasOffset)

\* The u64 whose little-endian encoding starts at offset off of the buffer.
LEWordAt(off) ==
    <<data[off + 8], data[off + 7], data[off + 6], data[off + 5],
      data[off + 4], data[off + 3], data[off + 2], data[off + 1]>>

\* The little-endian encoding of a vector of u64.
EncodeLE(words) ==
    [k \in 1..(8 * Len(words)) |-> words[((k - 1) \div 8) + 1][8 - ((k - 1) % 8)]]

\* The layout tables of the record formats.
CoreCsrOrder ==
    <<"mstatus", "misa", "medeleg", "mideleg", "mie", "mtvec", "mcounteren",
      "mscratch", "mepc", "mcause", "mtval", "mip", "mcycle", "minstret",
      "mvendorid", "marchid", "mimpid", "mhartid">>
ExceptionCsrOrder ==
    <<"mstatus", "mcause", "mepc", "mtval", "mie", "mip", "mtvec", "mscratch", "mhartid">>

PayloadLenOf(marker_type) ==
    CASE marker_type = RegistersIntOnly     -> INT_PAYLOAD_LEN
      [] marker_type = RegistersIntAndFloat -> INT_FLOAT_PAYLOAD_LEN
      [] marker_type = ExceptionCSR         -> EXCEPTION_PAYLOAD_LEN

MarkerOf(marker_type) ==
    CASE marker_type = RegistersIntOnly     -> MARKER_REGISTERS_INT_ONLY
      [] marker_type = RegistersIntAndFloat -> MARKER_REGISTERS_INT_AND_FLOAT
      [] marker_type = ExceptionCSR         -> MARKER_EXCEPTION_CSR

\* The bytes of the buffer that the items of one scan step stand for: a text
\* with the NUL it dropped, a marker with the payload of its record, a chunk.
StepBytes(e) ==
    LET it == output_items[e.first]
    IN  CASE it.tag = "AsciiText" ->
               it.text \o (IF Len(it.text) < e.consumed THEN <<0>> ELSE <<>>)
          [] it.tag = "MagicMarker" ->
               EncodeLE(<<it.marker>>)
               \o (IF e.count = 1 THEN <<>>
                   ELSE LET rec == output_items[e.first + 1]
                        IN  IF rec.tag = "RegisterData" THEN EncodeLE(rec.registers)
                            ELSE EncodeLE([k \in 1..9 |-> rec.csrs[ExceptionCsrOrder[k]]]))
          [] it.tag = "UnknownBinary" -> it.data
          [] OTHER -> <<>>

RECURSIVE SumConsumed(_)
SumConsumed(log) ==
    IF log = <<>> THEN 0 ELSE log[1].consumed + SumConsumed(Tail(log))

\* C1: the offsets of the emitted items never decrease, and the ranges the
\* scan steps consume partition the buffer: they follow one another from
\* offset 0 without gap or overlap, each is non-empty, the items of a step
\* stand for exactly the bytes of its range, and when decode returns the
\* consumed lengths sum to the buffer length.
C1_OffsetsAndCoverage ==
    /\ \A i \in 1..(Len(OffsetItems) - 1) :
          OffsetItems[i].position <= OffsetItems[i + 1].position
    /\ \A k \in 1..Len(scan_log) :
          LET e == scan_log[k]
          IN  /\ e.consumed >= 1
              /\ e.count >= 1
              /\ e.start = (IF k = 1 THEN 0
                            ELSE scan_log[k - 1].start + scan_log[k - 1].consumed)
              /\ e.first = (IF k = 1 THEN 1
                            ELSE scan_log[k - 1].first + scan_log[k - 1].count)
              /\ e.start + e.consumed <= Len(data)
              /\ HasOffset(output_items[e.first]) => output_items[e.first].position = e.start
              /\ StepBytes(e) = SubSeq(data, e.start + 1, e.start + e.consumed)
    /\ SumConsumed(scan_log) = pos
    /\ pc = "done" => SumConsumed(scan_log) = Len(data)

\* Witness of C1: decode has returned after a text step that dropped its NUL
\* and at least two offset-carrying items.
C1_Witness ==
    /\ pc = "done"
    /\ Len(OffsetItems) >= 2
    /\ \E k \in 1..Len(scan_log) :
          /\ output_items[scan_log[k].first].tag = "AsciiText"
          /\ Len(output_items[scan_log[k].first].text) + 1 = scan_log[k].consumed

\* The fields of a register dump against the layout table, read from the
\* buffer at the dump's position.
RegistersDumpMatchesLayout(d) ==
    LET payload == d.position + MARKER_LEN
    IN  /\ d.dump_type \in {RegistersIntOnly, RegistersIntAndFloat}
        /\ LEWordAt(d.position) = MarkerOf(d.dump_type)
        /\ \A i \in 0..31 : d.int_registers[i + 1] = LEWordAt(payload + 8 * i)
        /\ \A k \in 1..18 :
              d.core_csrs[CoreCsrOrder[k]] = LEWordAt(payload + 256 + 8 * (k - 1))
        /\ IF d.dump_type = RegistersIntAndFloat
           THEN /\ d.float_csr = Some(LEWordAt(payload + 400))
                /\ IsSome(d.float_registers)
                /\ \A i \in 0..31 :
                      Unwrap(d.float_registers)[i + 1] = LEWordAt(payload + 408 + 8 * i)
           ELSE d.float_csr = None /\ d.float_registers = None

ExceptionDumpMatchesLayout(d) ==
    LET payload == d.position + MARKER_LEN
    IN  /\ LEWordAt(d.position) = MARKER_EXCEPTION_CSR
        /\ \A k \in 1..9 :
              d.csrs[ExceptionCsrOrder[k]] = LEWordAt(payload + 8 * (k - 1))

\* The buffer is one marker followed by exactly its full-length payload.
IsSingleRecord(marker_type) ==
    /\ Len(data) = MARKER_LEN + PayloadLenOf(marker_type)
    /\ SubSeq(data, 1, MARKER_LEN) = EncodeLE(<<MarkerOf(marker_type)>>)

\* C2: every dump holds, field by field, the little-endian words at the
\* offsets the layout table gives, and its position is the offset of its
\* marker; a buffer that is one marker with its full-length payload decodes
\* to exactly one dump, of that kind, at position 0.
C2_RoundTrip ==
    /\ \A i \in 1..Len(register_dumps) : RegistersDumpMatchesLayout(register_dumps[i])
    /\ \A i \in 1..Len(exception_dumps) : ExceptionDumpMatchesLayout(exception_dumps[i])
    /\ \A mt \in {RegistersIntOnly, RegistersIntAndFloat} :
          (pc = "done" /\ IsSingleRecord(mt)) =>
             /\ Len(register_dumps) = 1 /\ exception_dumps = <<>>
             /\ register_dumps[1].dump_type = mt
             /\ register_dumps[1].position = 0
             /\ Len(output_items) = 2 /\ output_items[2].tag = "RegisterData"
    /\ (pc = "done" /\ IsSingleRecord(ExceptionCSR)) =>
             /\ Len(exception_dumps) = 1 /\ register_dumps = <<>>
             /\ exception_dumps[1].position = 0
             /\ Len(output_items) = 2 /\ output_items[2].tag = "ExceptionData"

\* Witness of C2: a buffer holding one IntAndFloat record has been decoded.
C2_Witness ==
    /\ pc = "done"
    /\ IsSingleRecord(RegistersIntAndFloat)
    /\ Len(register_dumps) = 1

\* C3 as claimed: byte_offset is strictly increasing from each
\* offset-carrying item to the next.
C3_StrictlyIncreasing ==
    \A i \in 1..(Len(OffsetItems) - 1) :
       OffsetItems[i].position < OffsetItems[i + 1].position

\* C3 amended: byte_offset is strictly increasing from each offset-carrying
\* item to the next, except that a record item carries the offset of the
\* MagicMarker item emitted just before it.
C3_IncreasingButRecord ==
    /\ \A i \in 1..(Len(OffsetItems) - 1) :
          IF IsRecordItem(OffsetItems[i + 1])
          THEN /\ OffsetItems[i].tag = "MagicMarker"
               /\ OffsetItems[i].position = OffsetItems[i + 1].position
          ELSE OffsetItems[i].position < OffsetItems[i + 1].position
    /\ OffsetItems # <<>> => ~IsRecordItem(OffsetItems[1])

\* Witness of C3: a marker, its record and a later item have been emitted.
C3_Witness ==
    /\ pc = "done"
    /\ \E i \in 1..(Len(OffsetItems) - 2) :
          /\ OffsetItems[i].tag = "MagicMarker"
          /\ IsRecordItem(OffsetItems[i + 1])
          /\ OffsetItems[i + 2].position > OffsetItems[i + 1].position

\* C4: decode never fails and always terminates: no scan step panics on a
\* read outside the buffer, every step advances by at least one byte and
\* stays inside the buffer (so there are at most as many steps as bytes), an
\* unfinished scan always has a branch to take, and a returned decode has
\* scanned the whole buffer.
C4_TotalAndTerminating ==
    /\ pc # "panicked"
    /\ pos <= Len(data)
    /\ Len(scan_log) <= Len(data)
    /\ \A k \in 1..Len(scan_log) :
          /\ scan_log[k].consumed >= 1
          /\ scan_log[k].start + scan_log[k].consumed <= Len(data)
          /\ k > 1 => scan_log[k].start > scan_log[k - 1].start
    /\ pc = "scan" =>
          \/ ReturnOkGuard
          \/ TextStepGuard
          \/ KnownMarkerStepGuard
          \/ UnknownMarkerStepGuard
          \/ UnknownBinaryStepGuard
    /\ pc = "done" => pos = Len(data)

\* Witness of C4: decode has returned on a non-empty buffer shorter than 8
\* bytes that took several steps.
C4_Witness ==
    /\ pc = "done"
    /\ Len(data) \in 1..7
    /\ Len(scan_log) >= 2
    /\ \E i \in 1..Len(output_items) : output_items[i].tag = "UnknownBinary"

\* A known marker at item index i whose payload is cut short by the end of
\* the buffer.
IsTruncatedMarker(i) ==
    /\ output_items[i].tag = "MagicMarker"
    /\ output_items[i].marker_type.kind # "Unknown"
    /\ Len(data) - (output_items[i].position + MARKER_LEN)
          < PayloadLenOf(output_items[i].marker_type)

\* C5: a known marker followed by fewer bytes than its payload length yields
\* the MagicMarker item alone: no record item follows it, no dump carries its
\* position, its scan step consumed exactly the 8 bytes of the marker, and
\* the bytes after it are scanned by the following steps.
C5_TruncatedPayload ==
    \A i \in 1..Len(output_items) :
       IsTruncatedMarker(i) =>
          LET p == output_items[i].position
          IN  /\ i < Len(output_items) => ~IsRecordItem(output_items[i + 1])
              /\ \A j \in 1..Len(register_dumps) : register_dumps[j].position # p
              /\ \A j \in 1..Len(exception_dumps) : exception_dumps[j].position # p
              /\ \E k \in 1..Len(scan_log) :
                    /\ scan_log[k].start = p
                    /\ scan_log[k].consumed = MARKER_LEN
                    /\ scan_log[k].count = 1
                    /\ scan_log[k].first = i
              /\ (pc = "done" /\ p + MARKER_LEN < Len(data)) =>
                    \E k \in 1..Len(scan_log) : scan_log[k].start = p + MARKER_LEN

\* Witness of C5: an exception marker one byte short of its payload, the
\* leftover bytes scanned to the end.
C5_Witness ==
    /\ pc = "done"
    /\ \E i \in 1..Len(output_items) :
          /\ IsTruncatedMarker(i)
          /\ output_items[i].marker_type = ExceptionCSR
          /\ Len(data) - (output_items[i].position + MARKER_LEN) = EXCEPTION_PAYLOAD_LEN - 1
          /\ i < Len(output_items)

\* C20: in every register dump the decoder has produced, the float register
\* file is present exactly when the float CSR is, and exactly when the dump is
\* of the integer-and-float kind; no dump is of the exception or an unknown
\* kind.
C20_FloatPresenceMatchesKind ==
    \A k \in 1..Len(register_dumps) :
        LET d == register_dumps[k]
        IN  /\ IsSome(d.float_registers) <=> IsSome(d.float_csr)
            /\ IsSome(d.float_csr) <=> (d.dump_type = RegistersIntAndFloat)
            /\ d.dump_type \in {RegistersIntOnly, RegistersIntAndFloat}

\* Witness of C20: decode has returned an integer-and-float dump that carries
\* its float CSR and float registers.
C20_Witness ==
    /\ pc = "done"
    /\ \E k \in 1..Len(register_dumps) :
          /\ register_dumps[k].dump_type = RegistersIntAndFloat
          /\ IsSome(register_dumps[k].float_csr)
          /\ IsSome(register_dumps[k].float_registers)

\* A complete register record starts at offset p of the buffer: a register
\* marker followed by its full payload.
CompleteRegisterRecordAt(p) ==
    /\ p + MARKER_LEN <= Len(data)
    /\ \/ /\ LEWordAt(p) = MARKER_REGISTERS_INT_ONLY
          /\ Len(data) - (p + MARKER_LEN) >= INT_PAYLOAD_LEN
       \/ /\ LEWordAt(p) = MARKER_REGISTERS_INT_AND_FLOAT
          /\ Len(data) - (p + MARKER_LEN) >= INT_FLOAT_PAYLOAD_LEN

\* The offsets at which the scan recognised a known marker.
ScannedMarkerOffsets ==
    {output_items[i].position : i \in {j \in 1..Len(output_items) :
        /\ output_items[j].tag = "MagicMarker"
        /\ output_items[j].marker_type.kind # "Unknown"}}

CompleteRecordAt(p) ==
    /\ p + MARKER_LEN <= Len(data)
    /\ IsSome(get_marker_type(LEWordAt(p)))
    /\ Len(data) - (p + MARKER_LEN) >= PayloadLenOf(Unwrap(get_marker_type(LEWordAt(p))))

\* The record at offset p was recognised: its MagicMarker item is followed by
\* its record item, and the dump of its kind was pushed.
RecordRecognisedAt(p) ==
    \E i \in 1..(Len(output_items) - 1) :
        /\ output_items[i].tag = "MagicMarker"
        /\ output_items[i].position = p
        /\ output_items[i].marker = LEWordAt(p)
        /\ IsRecordItem(output_items[i + 1])
        /\ output_items[i + 1].position = p
        /\ IF output_items[i + 1].tag = "RegisterData"
           THEN \E j \in 1..Len(register_dumps) : register_dumps[j].position = p
           ELSE \E j \in 1..Len(exception_dumps) : exception_dumps[j].position = p

\* The bytes from offset s up to offset p are a run of printable text.
PrintableRun(s, p) ==
    /\ s < p
    /\ \A i \in (s + 1)..p : data[i] >= 32 /\ data[i] <= 126

\* A text item was emitted by the scan step that started at offset s.
TextItemAt(s) ==
    \E k \in 1..Len(scan_log) :
        /\ scan_log[k].start = s
        /\ output_items[scan_log[k].first].tag = "AsciiText"

\* Offset p holds a complete record that immediately follows a run of
\* printable text starting at the scan position s, the text standing
\* without a NUL of its own.
RecordAfterUnterminatedText(s, p) ==
    /\ CompleteRecordAt(p)
    /\ PrintableRun(s, p)

\* The same with the text closed by its own NUL at offset p - 1.
RecordAfterTerminatedText(s, p) ==
    /\ CompleteRecordAt(p)
    /\ PrintableRun(s, p - 1)
    /\ data[p] = 0

\* The positions at which a scan step started.
ScanStarts == {scan_log[k].start : k \in 1..Len(scan_log)}

\* C22: when decode returns, every complete record that immediately follows a
\* run of printable text, with or without a NUL closing the text, has been
\* recognised: the text item, then its MagicMarker, its record item and its
\* dump.
C22_RecordAfterText ==
    pc = "done" =>
        \A s \in ScanStarts : \A p \in (s + 1)..Len(data) :
            (RecordAfterUnterminatedText(s, p) \/ RecordAfterTerminatedText(s, p))
                => (TextItemAt(s) /\ RecordRecognisedAt(p))

\* The part of C22 for a text closed by its own NUL.
C22_RecordAfterTerminatedText ==
    pc = "done" =>
        \A s \in ScanStarts : \A p \in (s + 1)..Len(data) :
            RecordAfterTerminatedText(s, p) => (TextItemAt(s) /\ RecordRecognisedAt(p))

\* A record after a NUL-terminated text has been decoded.
C22_TerminatedReached ==
    /\ pc = "done"
    /\ \E s \in ScanStarts : \E p \in (s + 1)..Len(data) :
          RecordAfterTerminatedText(s, p) /\ RecordRecognisedAt(p)

\* The scan steps that emitted a text item.
TextSteps == {k \in 1..Len(scan_log) : output_items[scan_log[k].first].tag = "AsciiText"}

\* Printable ASCII, 0x20-0x7E.
IsPrintableAscii(b) == b >= 32 /\ b <= 126

\* C23: every text item is non-empty, holds at least one printable byte and
\* only printable ASCII bytes, newlines, carriage returns and tabs; the step
\* consumed the text and, beyond it, at most the one NUL that ended it, so a
\* control byte or a byte of 128 or more that ended it is left for the next
\* scan step.
C23_TextItemContent ==
    \A k \in TextSteps :
        LET e == scan_log[k]
            text == output_items[e.first].text
        IN  /\ text # <<>>
            /\ \E i \in 1..Len(text) : IsPrintableAscii(text[i])
            /\ \A i \in 1..Len(text) : IsPrintableAscii(text[i]) \/ text[i] \in {10, 13, 9}
            /\ text = SubSeq(data, e.start + 1, e.start + Len(text))
            /\ \/ e.consumed = Len(text)
               \/ e.consumed = Len(text) + 1 /\ data[e.start + e.consumed] = 0
            /\ (e.consumed = Len(text) /\ e.start + e.consumed < Len(data)) =>
                   LET next == data[e.start + e.consumed + 1]
                   IN  next >= 128 \/ (next < 32 /\ next \notin {0, 10, 13, 9})

\* The part of C23 that does not depend on which bytes count as text: the
\* text is a non-empty prefix of the bytes at the step's start, and the step
\* consumed nothing beyond it but one NUL.
C23_TextItemExtent ==
    \A k \in TextSteps :
        LET e == scan_log[k]
            text == output_items[e.first].text
        IN  /\ text # <<>>
            /\ text = SubSeq(data, e.start + 1, e.start + Len(text))
            /\ \/ e.consumed = Len(text)
               \/ e.consumed = Len(text) + 1 /\ data[e.start + e.consumed] = 0

\* The four fixed magic constants, as the low 32 bits of a u64.
MagicLow32 ==
    { <<222, 173, 190, 239>>,    \* 0xDEADBEEF
      <<202, 254, 186, 190>>,    \* 0xCAFEBABE
      <<254, 237, 250, 206>>,    \* 0xFEEDFACE
      <<11, 173, 192, 222>> }    \* 0x0BADC0DE

\* The 8 bytes at offset s hold fewer than 4 distinct values, or the low 32
\* bits of their little-endian value are a magic constant.
HeuristicMarkerAt(s) ==
    \/ Cardinality({data[i] : i \in (s + 1)..(s + 8)}) < 4
    \/ <<data[s + 4], data[s + 3], data[s + 2], data[s + 1]>> \in MagicLow32

\* The scan steps whose text attempt produced nothing and that did not meet a
\* known marker.
NonTextUnknownSteps ==
    {k \in 1..Len(scan_log) :
        /\ output_items[scan_log[k].first].tag # "AsciiText"
        /\ ~(/\ scan_log[k].start + 8 <= Len(data)
             /\ IsSome(get_marker_type(LEWordAt(scan_log[k].start))))}

\* C24: a step without text and without a known marker emits the 8 bytes as a
\* MagicMarker of kind Unknown(value) and advances 8 bytes with no payload
\* exactly when 8 bytes remain and they look like a marker; in every other
\* case it emits one UnknownBinary item of 8 bytes, or of all the bytes that
\* remain when fewer than 8 do.
C24_HeuristicMarkerOrFallback ==
    \A k \in NonTextUnknownSteps :
        LET e == scan_log[k]
            it == output_items[e.first]
            remaining == Len(data) - e.start
        IN  /\ e.count = 1
            /\ IF remaining >= 8 /\ HeuristicMarkerAt(e.start)
               THEN /\ it.tag = "MagicMarker"
                    /\ it.marker = LEWordAt(e.start)
                    /\ it.marker_type = Unknown(LEWordAt(e.start))
                    /\ it.position = e.start
                    /\ e.consumed = 8
               ELSE /\ it.tag = "UnknownBinary"
                    /\ it.position = e.start
                    /\ e.consumed = Min2(8, remaining)
                    /\ it.data = SubSeq(data, e.start + 1, e.start + e.consumed)

\* Witness of C24: decode has returned after emitting an unknown marker for a
\* magic constant, one for a value of few distinct bytes, and an UnknownBinary
\* item shorter than 8 bytes at the end of the buffer.
C24_Witness ==
    /\ pc = "done"
    /\ \E k \in NonTextUnknownSteps :
          /\ output_items[scan_log[k].first].tag = "MagicMarker"
          /\ Cardinality({data[i] : i \in (scan_log[k].start + 1)..(scan_log[k].start + 8)}) >= 4
    /\ \E k \in NonTextUnknownSteps :
          /\ output_items[scan_log[k].first].tag = "MagicMarker"
          /\ Cardinality({data[i] : i \in (scan_log[k].start + 1)..(scan_log[k].start + 8)}) < 4
    /\ \E k \in NonTextUnknownSteps :
          /\ output_items[scan_log[k].first].tag = "UnknownBinary"
          /\ scan_log[k].consumed < 8

-----------------------------------------------------------------------------
(***************************************************************************)
(* compare_exception_dump_lists  (src/src/output_diff/diff/mod.rs)         *)
(* List indices are 1-based here; the code's are 0-based.                  *)
(***************************************************************************)
\* The bytes of the strings that take part in a comparison of category names.
Utf8 ==
    "mstatus" :> <<109, 115, 116, 97, 116, 117, 115>> @@
    "mcause" :> <<109, 99, 97, 117, 115, 101>> @@
    "mepc" :> <<109, 101, 112, 99>> @@
    "mtval" :> <<109, 116, 118, 97, 108>> @@
    "mie" :> <<109, 105, 101>> @@
    "mip" :> <<109, 105, 112>> @@
    "mtvec" :> <<109, 116, 118, 101, 99>> @@
    "mscratch" :> <<109, 115, 99, 114, 97, 116, 99, 104>> @@
    "mhartid" :> <<109, 104, 97, 114, 116, 105, 100>> @@
    "Spike" :> <<83, 112, 105, 107, 101>> @@
    "Rocket" :> <<82, 111, 99, 107, 101, 116>>
\* "Fixed MIP Difference"
FixedMipName == <<70, 105, 120, 101, 100, 32, 77, 73, 80, 32, 68, 105, 102, 102, 101, 114, 101, 110, 99, 101>>
\* "MCAUSE Difference"
McauseName == <<77, 67, 65, 85, 83, 69, 32, 68, 105, 102, 102, 101, 114, 101, 110, 99, 101>>
\* "Exception only in "
OnlyInPrefix == <<69, 120, 99, 101, 112, 116, 105, 111, 110, 32, 111, 110, 108, 121, 32, 105, 110, 32>>
\* "MTVAL Difference"
MtvalName == <<77, 84, 86, 65, 76, 32, 68, 105, 102, 102, 101, 114, 101, 110, 99, 101>>
\* " Difference"
DifferenceSuffix == <<32, 68, 105, 102, 102, 101, 114, 101, 110, 99, 101>>

\* Ord::cmp on two sequences of naturals (String and u64 alike): -1, 0 or 1.
RECURSIVE SeqCmp(_, _)
SeqCmp(a, b) ==
    IF a = <<>> THEN (IF b = <<>> THEN 0 ELSE -1)
    ELSE IF b = <<>> THEN 1
    ELSE IF Head(a) < Head(b) THEN -1
    ELSE IF Head(a) > Head(b) THEN 1
    ELSE SeqCmp(Tail(a), Tail(b))

\* impl Display for EmulatorType
EmulatorTypes == {"Spike", "Rocket"}
EmulatorDisplay(simulator) == Utf8[simulator]

\* ExceptionDiffCategory
FixedMipDifference(v1, v2) ==
    [kind |-> "FixedMipDifference", sim1_value |-> v1, sim2_value |-> v2]
McauseDifference(c1, c2) ==
    [kind |-> "McauseDifference", sim1_cause |-> c1, sim2_cause |-> c2]
OnlyInSimulatorCategory(simulator, mcause) ==
    [kind |-> "OnlyInSimulator", simulator |-> simulator, mcause |-> mcause]
MtvalDifference == [kind |-> "MtvalDifference"]
OtherCsrDifference(csr_name) == [kind |-> "OtherCsrDifference", csr_name |-> csr_name]

\* ExceptionDiffInfo.  The description strings of the two variants are left
\* out: nothing downstream of the constructor reads them.
OnlyInSimulatorInfo(simulator, pc_, mcause, instruction_trace) ==
    [variant |-> "OnlyInSimulator", simulator |-> simulator, pc |-> pc_,
     mcause |-> mcause, instruction_trace |-> instruction_trace]
CsrDifferenceInfo(pc_, csr_name, sim1_value, sim2_value, instruction_trace) ==
    [variant |-> "CsrDifference", pc |-> pc_, csr_name |-> csr_name,
     sim1_value |-> sim1_value, sim2_value |-> sim2_value,
     instruction_trace |-> instruction_trace]

\* Mutant of get_category: a mip difference is filed under the field's name.
get_category_mipAsOther(d) ==
    IF d.variant = "OnlyInSimulator"
    THEN OnlyInSimulatorCategory(d.simulator, d.mcause)
    ELSE CASE d.csr_name = "mcause" -> McauseDifference(d.sim1_value, d.sim2_value)
           [] d.csr_name = "mtval"  -> MtvalDifference
           [] OTHER                 -> OtherCsrDifference(d.csr_name)

get_category(d) ==
    IF d.variant = "OnlyInSimulator"
    THEN OnlyInSimulatorCategory(d.simulator, d.mcause)
    ELSE CASE d.csr_name = "mip"    -> FixedMipDifference(d.sim1_value, d.sim2_value)
           [] d.csr_name = "mcause" -> McauseDifference(d.sim1_value, d.sim2_value)
           [] d.csr_name = "mtval"  -> MtvalDifference
           [] OTHER                 -> OtherCsrDifference(d.csr_name)

get_pc(d) == d.pc

format_category_name(category) ==
    CASE category.kind = "FixedMipDifference" -> FixedMipName
      [] category.kind = "McauseDifference"   -> McauseName
      [] category.kind = "OnlyInSimulator"    ->
             OnlyInPrefix \o EmulatorDisplay(category.simulator)
      [] category.kind = "MtvalDifference"    -> MtvalName
      [] category.kind = "OtherCsrDifference" ->
             Utf8[category.csr_name] \o DifferenceSuffix

\* The order in which compare_exception_csrs tests the fields.
CsrCompareOrder ==
    <<"mstatus", "mcause", "mepc", "mtval", "mie", "mip", "mtvec", "mscratch", "mhartid">>

\* Mutant of compare_exception_csrs: equal fields are reported too.
compare_exception_csrs_all(csrs1, csrs2) ==
    [k \in 1..Len(CsrCompareOrder) |->
        <<CsrCompareOrder[k], csrs1[CsrCompareOrder[k]], csrs2[CsrCompareOrder[k]]>>]

\* The (field name, value1, value2) triples pushed onto diff_list.
compare_exception_csrs(csrs1, csrs2) ==
    LET all == [k \in 1..Len(CsrCompareOrder) |->
                   <<CsrCompareOrder[k], csrs1[CsrCompareOrder[k]], csrs2[CsrCompareOrder[k]]>>]
        differs(t) == t[2] # t[3]
    IN  SelectSeq(all, differs)

\* list2_map: for every mepc of list2, the indices that carry it, ascending.
list2_map(l2) ==
    [m \in {l2[i].csrs.mepc : i \in 1..Len(l2)} |->
        LET hit(i) == l2[i].csrs.mepc = m
        IN  SelectSeq([i \in 1..Len(l2) |-> i], hit)]

\* Mutant of FirstUnmatched: the last unmatched index is taken.
LastUnmatched(indices, matched) ==
    LET free == {k \in 1..Len(indices) : ~matched[indices[k]]}
    IN  IF free = {} THEN None
        ELSE Some(indices[CHOOSE k \in free : \A j \in free : j <= k])

\* indices.iter().position(|&idx2| !list2_matched_indices[idx2]), and the
\* list2 index found there.
FirstUnmatched(indices, matched) ==
    LET free == {k \in 1..Len(indices) : ~matched[indices[k]]}
    IN  IF free = {} THEN None
        ELSE Some(indices[CHOOSE k \in free : \A j \in free : k <= j])

PairedExceptionDiff(ex1, ex2, diffs) ==
    [exception1 |-> ex1, exception2 |-> ex2, csrs_differences |-> diffs]

\* The raw difference records of one pair, in field order.
PairRawDiffs(ex1, csrs_diffs) ==
    [k \in 1..Len(csrs_diffs) |->
        CsrDifferenceInfo(ex1.csrs.mepc, csrs_diffs[k][1], csrs_diffs[k][2],
                          csrs_diffs[k][3], ex1.inst_trace)]

\* The state of the loop over list1 before any iteration.
PairLoopInit(l2) ==
    [matched |-> [i \in 1..Len(l2) |-> FALSE],
     list1_only |-> <<>>, paired |-> <<>>, raw |-> <<>>]

\* One iteration of `for ex1 in list1.iter()`.
PairLoopBody(ex1, l2, sim1, st) ==
    LET mepc == ex1.csrs.mepc
        map == list2_map(l2)
        found == IF mepc \in DOMAIN map THEN FirstUnmatched(map[mepc], st.matched)
                 ELSE None
    IN  IF IsSome(found)
        THEN LET list2_idx == Unwrap(found)
                 ex2 == l2[list2_idx]
                 csrs_diffs == compare_exception_csrs(ex1.csrs, ex2.csrs)
             IN  [matched |-> [st.matched EXCEPT ![list2_idx] = TRUE],
                  list1_only |-> st.list1_only,
                  paired |-> Append(st.paired, PairedExceptionDiff(ex1, ex2, csrs_diffs)),
                  raw |-> st.raw \o PairRawDiffs(ex1, csrs_diffs)]
        ELSE [matched |-> st.matched,
              list1_only |-> Append(st.list1_only, ex1),
              paired |-> st.paired,
              raw |-> Append(st.raw,
                             OnlyInSimulatorInfo(sim1, mepc, ex1.csrs.mcause, ex1.inst_trace))]

RECURSIVE PairLoop(_, _, _, _, _)
PairLoop(l1, l2, sim1, i, st) ==
    IF i > Len(l1) THEN st
    ELSE PairLoop(l1, l2, sim1, i + 1, PairLoopBody(l1[i], l2, sim1, st))

\* Mutant of Unmatched2: every index of list2 is reported unmatched.
Unmatched2_all(l2, matched) == [i \in 1..Len(l2) |-> i]

\* The indices of list2 that the filter_map keeps, ascending.
Unmatched2(l2, matched) ==
    LET free(i) == ~matched[i]
    IN  SelectSeq([i \in 1..Len(l2) |-> i], free)

\* Everything compare_exception_dump_lists has computed when it reaches the
\* categorization: the two only-lists, the pairs and the raw records.
Pairing(l1, l2, sim1, sim2) ==
    LET st == PairLoop(l1, l2, sim1, 1, PairLoopInit(l2))
        rest == Unmatched2(l2, st.matched)
    IN  [list1_only |-> st.list1_only,
         list2_only |-> [k \in 1..Len(rest) |-> l2[rest[k]]],
         paired |-> st.paired,
         raw |-> st.raw \o
                 [k \in 1..Len(rest) |->
                     OnlyInSimulatorInfo(sim2, l2[rest[k]].csrs.mepc,
                                         l2[rest[k]].csrs.mcause, l2[rest[k]].inst_trace)]]

\* Mutant of category_map: a category keeps only its first record.
category_map_firstOnly(raw) ==
    [c \in {get_category(raw[i]) : i \in 1..Len(raw)} |->
        LET hit(d) == get_category(d) = c
        IN  <<SelectSeq(raw, hit)[1]>>]

\* category_map after the loop over raw_diffs: for every category the records
\* that fall in it, in their order in raw_diffs.
category_map(raw) ==
    [c \in {get_category(raw[i]) : i \in 1..Len(raw)} |->
        LET hit(d) == get_category(d) = c
        IN  SelectSeq(raw, hit)]

\* The categories in the order of their first record.
RECURSIVE CategoryKeys(_, _)
CategoryKeys(raw, seen) ==
    IF raw = <<>> THEN <<>>
    ELSE LET c == get_category(Head(raw))
         IN  IF c \in seen THEN CategoryKeys(Tail(raw), seen)
             ELSE <<c>> \o CategoryKeys(Tail(raw), seen \cup {c})

Reverse(s) == [k \in 1..Len(s) |-> s[Len(s) + 1 - k]]
Rotate(s, r) == [k \in 1..Len(s) |-> s[((k - 1 + r) % Len(s)) + 1]]

\* category_map.into_iter(): std's HashMap is seeded per map, so the order of
\* the entries is not a function of the keys.  The orders considered are the
\* rotations of the first-record order and of its reverse, which give every
\* order of up to three categories and both relative orders of any two.
IterationOrders(keys) ==
    IF keys = <<>> THEN {<<>>}
    ELSE {Rotate(keys, r) : r \in 0..(Len(keys) - 1)}
         \cup {Rotate(Reverse(keys), r) : r \in 0..(Len(keys) - 1)}

\* Mutant of SortedDedup: the PCs come out in descending order.
RECURSIVE SortedDedup_descending(_)
SortedDedup_descending(S) ==
    IF S = {} THEN <<>>
    ELSE LET greatest == CHOOSE x \in S : \A y \in S : SeqCmp(x, y) >= 0
         IN  <<greatest>> \o SortedDedup_descending(S \ {greatest})

\* pc_list.sort_unstable(); pc_list.dedup()
RECURSIVE SortedDedup(_)
SortedDedup(S) ==
    IF S = {} THEN <<>>
    ELSE LET least == CHOOSE x \in S : \A y \in S : SeqCmp(x, y) <= 0
         IN  <<least>> \o SortedDedup(S \ {least})

\* diff_list.iter().find(|d| d.get_pc() == *pc).and_then(.. instruction_trace.clone())
FirstTraceFor(diff_list, pc_) ==
    LET hits == {i \in 1..Len(diff_list) : get_pc(diff_list[i]) = pc_}
    IN  IF hits = {} THEN None
        ELSE diff_list[CHOOSE i \in hits : \A j \in hits : i <= j].instruction_trace

\* One line of diffs_summary, kept as the arguments of its format! call: the
\* disassembly is the empty string when the record has no trace.
SummaryLine(d) ==
    LET trace_info == IF IsSome(d.instruction_trace)
                      THEN Unwrap(d.instruction_trace).disassembly ELSE ""
    IN  IF d.variant = "OnlyInSimulator"
        THEN <<"PC", d.pc, trace_info, "Mcause", d.mcause>>
        ELSE <<"PC", d.pc, trace_info, "CSR", d.csr_name,
               "Sim1", d.sim1_value, "Sim2", d.sim2_value>>

\* The closure of the map over category_map's entries.
CategorizedExceptionDiffs(category, diff_list) ==
    LET pc_list == SortedDedup({get_pc(diff_list[i]) : i \in 1..Len(diff_list)})
    IN  [category |-> category,
         diffs_summary |-> [i \in 1..Len(diff_list) |-> SummaryLine(diff_list[i])],
         count |-> Len(diff_list),
         pc_list |-> pc_list,
         pc_instruction_traces |->
             [k \in 1..Len(pc_list) |-> FirstTraceFor(diff_list, pc_list[k])]]

\* Mutant of GroupCmp: the groups are compared by ascending count.
GroupCmp_ascending(a, b) ==
    IF a.count < b.count THEN -1
    ELSE IF a.count > b.count THEN 1
    ELSE SeqCmp(format_category_name(a.category), format_category_name(b.category))

\* The comparator handed to sort_by:
\* b.count.cmp(&a.count).then_with(|| name(a).cmp(&name(b)))
GroupCmp(a, b) ==
    IF b.count < a.count THEN -1
    ELSE IF b.count > a.count THEN 1
    ELSE SeqCmp(format_category_name(a.category), format_category_name(b.category))

\* x put into a sorted sequence behind every element that does not compare
\* greater: what a stable sort does with elements that compare equal.
RECURSIVE InsertStable(_, _)
InsertStable(sorted, x) ==
    IF sorted = <<>> THEN <<x>>
    ELSE IF GroupCmp(Head(sorted), x) <= 0
         THEN <<Head(sorted)>> \o InsertStable(Tail(sorted), x)
         ELSE <<x>> \o sorted

\* slice::sort_by, a stable sort.
RECURSIVE sort_by(_)
sort_by(s) ==
    IF s = <<>> THEN <<>>
    ELSE InsertStable(sort_by(SubSeq(s, 1, Len(s) - 1)), s[Len(s)])

\* iter_order is the order in which into_iter() yields the map's entries.
analyze_and_categorize_exception_diffs(raw, iter_order) ==
    LET map == category_map(raw)
    IN  sort_by([k \in 1..Len(iter_order) |->
                    CategorizedExceptionDiffs(iter_order[k], map[iter_order[k]])])

ExceptionListDiff(sim1, sim2, p, summary) ==
    [sim1_emulator_type |-> sim1,
     sim2_emulator_type |-> sim2,
     list1_only_exceptions |-> p.list1_only,
     list2_only_exceptions |-> p.list2_only,
     paired_exceptions_diffs |-> p.paired,
     categorized_summary |-> summary]

\* The values compare_exception_dump_lists can return: one for each order in
\* which the category map can be iterated.
compare_exception_dump_lists(l1, l2, sim1, sim2) ==
    LET p == Pairing(l1, l2, sim1, sim2)
    IN  IF p.raw # <<>>
        THEN {ExceptionListDiff(sim1, sim2, p,
                                analyze_and_categorize_exception_diffs(p.raw, o)) :
                 o \in IterationOrders(CategoryKeys(p.raw, {}))}
        ELSE {ExceptionListDiff(sim1, sim2, p, <<>>)}

\* ExceptionListDiff::is_empty
is_empty(d) ==
    /\ d.list1_only_exceptions = <<>>
    /\ d.list2_only_exceptions = <<>>
    /\ \A k \in 1..Len(d.paired_exceptions_diffs) :
          d.paired_exceptions_diffs[k].csrs_differences = <<>>
    /\ d.categorized_summary = <<>>

\* A first call of compare_exception_dump_lists on the two lists.
Compare ==
    /\ cmp_pc = "ready"
    /\ diff1' \in {Some(r) : r \in compare_exception_dump_lists(list1, list2, sim1_type, sim2_type)}
    /\ raw_diffs' = Pairing(list1, list2, sim1_type, sim2_type).raw
    /\ cmp_pc' = "called"
    /\ UNCHANGED <<list1, list2, sim1_type, sim2_type, diff2, decVars, regVars, minVars, stdVars, extVars>>

\* A second call on the same two lists.
CompareAgain ==
    /\ cmp_pc = "called"
    /\ diff2' \in {Some(r) : r \in compare_exception_dump_lists(list1, list2, sim1_type, sim2_type)}
    /\ cmp_pc' = "called_twice"
    /\ UNCHANGED <<list1, list2, sim1_type, sim2_type, diff1, raw_diffs, decVars, regVars, minVars, stdVars, extVars>>

CmpNext == Compare \/ CompareAgain

\* ---- inputs ----
\* A small value as a u64.
U64(n) == <<0, 0, 0, 0, 0, 0, n \div 256, n % 256>>

InstructionTrace(pc_, disassembly) ==
    [pc |-> pc_, disassembly |-> disassembly, machine_code |-> "00000013",
     original_instruction |-> disassembly]

ExceptionDump(mepc, mcause, mtval, mip, other, position, inst_trace) ==
    [csrs |-> [mstatus |-> U64(other), mcause |-> U64(mcause), mepc |-> U64(mepc),
               mtval |-> U64(mtval), mie |-> U64(other), mip |-> U64(mip),
               mtvec |-> U64(other), mscratch |-> U64(other), mhartid |-> U64(other)],
     position |-> position,
     inst_trace |-> inst_trace]

\* The exceptions the lists are drawn from: three at 0x1000 that differ in
\* mcause, mtval and mip, or in the five remaining fields and the trace, and
\* one at 0x2000.
ExceptionUniverse ==
    { ExceptionDump(4096, 2, 0, 0, 0, 0, None),
      ExceptionDump(4096, 5, 4, 128, 0, 80, None),
      ExceptionDump(4096, 2, 0, 0, 1, 160, Some(InstructionTrace(U64(4096), "ecall"))),
      ExceptionDump(8192, 5, 0, 0, 0, 240, Some(InstructionTrace(U64(8192), "ebreak"))) }

\* The two lists together hold at most MaxExceptions entries.
MaxExceptions == 4

RECURSIVE ListsOf(_)
ListsOf(n) ==
    IF n = 0 THEN {<<>>}
    ELSE LET shorter == ListsOf(n - 1)
         IN  shorter \cup {Append(l, e) : l \in {s \in shorter : Len(s) = n - 1},
                                          e \in ExceptionUniverse}

DecIdle ==
    /\ data = <<>> /\ pos = 0 /\ pc = "idle"
    /\ output_items = <<>> /\ register_dumps = <<>> /\ exception_dumps = <<>>
    /\ scan_log = <<>>

CmpInit ==
    /\ list1 \in ListsOf(MaxExceptions)
    /\ list2 \in ListsOf(MaxExceptions - Len(list1))
    /\ sim1_type \in EmulatorTypes
    /\ sim2_type \in EmulatorTypes \ {sim1_type}
    /\ cmp_pc = "ready"
    /\ diff1 = None /\ diff2 = None /\ raw_diffs = <<>>
    /\ DecIdle /\ RegIdle /\ MinIdle /\ StdIdle /\ ExtIdle

SpecCompare == CmpInit /\ [][CmpNext]_vars

-----------------------------------------------------------------------------
(***************************************************************************)
(* Properties of compare_exception_dump_lists                              *)
(***************************************************************************)
\* The first call has returned.
Called == cmp_pc \in {"called", "called_twice"}

\* The entries of a list with a given mepc, in list order.
WithMepc(l, m) ==
    LET hit(e) == e.csrs.mepc = m
    IN  SelectSeq(l, hit)

\* The pairs of a result whose list_a side has a given mepc, in pair order.
PairsWithMepc(d, m) ==
    LET hit(p) == p.exception1.csrs.mepc = m
    IN  SelectSeq(d.paired_exceptions_diffs, hit)

AllMepcs == {e.csrs.mepc : e \in ExceptionUniverse}

\* C6: pairing is by mepc alone.  Both sides of every pair have the same
\* mepc, and for every mepc the k-th pair with that mepc joins the k-th
\* list_a entry with that mepc to the k-th list_b entry with that mepc, so
\* that there are as many pairs as the rarer side has entries -- whatever the
\* other CSR fields hold.
C6_PairsOnMepcOnly ==
    Called =>
        LET d == Unwrap(diff1)
        IN  /\ \A k \in 1..Len(d.paired_exceptions_diffs) :
                  d.paired_exceptions_diffs[k].exception1.csrs.mepc
                      = d.paired_exceptions_diffs[k].exception2.csrs.mepc
            /\ \A m \in AllMepcs :
                  LET in_a == WithMepc(list1, m)
                      in_b == WithMepc(list2, m)
                      pairs == PairsWithMepc(d, m)
                  IN  /\ Len(pairs) = Min2(Len(in_a), Len(in_b))
                      /\ \A k \in 1..Len(pairs) :
                            /\ pairs[k].exception1 = in_a[k]
                            /\ pairs[k].exception2 = in_b[k]

\* Witness of C6: list_b holds two different entries with the mepc of a
\* list_a entry; the pair made differs in another CSR and one list_b entry
\* with that mepc is left over.
C6_Witness ==
    /\ Called
    /\ \E m \in AllMepcs :
          LET pairs == PairsWithMepc(Unwrap(diff1), m)
              in_b == WithMepc(list2, m)
          IN  /\ Len(pairs) >= 1
              /\ Len(in_b) > Len(pairs)
              /\ in_b[1] # in_b[2]
              /\ pairs[1].csrs_differences # <<>>

\* The entries of l at the indices in S, in list order.
Restrict(l, S) ==
    LET idx == [i \in 1..Len(l) |-> i]
        in_S(i) == i \in S
        kept == SelectSeq(idx, in_S)
    IN  [k \in 1..Len(kept) |-> l[kept[k]]]

\* How often e occurs in l.
Count(l, e) == Cardinality({i \in 1..Len(l) : l[i] = e})

Exception1s(d) ==
    [k \in 1..Len(d.paired_exceptions_diffs) |-> d.paired_exceptions_diffs[k].exception1]
Exception2s(d) ==
    [k \in 1..Len(d.paired_exceptions_diffs) |-> d.paired_exceptions_diffs[k].exception2]

\* C7: the result partitions both lists.  The indices of list_a split into
\* those whose entries are, in order, the exception1 of the pairs and those
\* whose entries are, in order, only_in_a; the indices of list_b split into
\* those whose entries are, in order, only_in_b and those whose entries are
\* the exception2 of the pairs, each exactly once.
C7_Partition ==
    Called =>
        LET d == Unwrap(diff1)
            all1 == 1..Len(list1)
            all2 == 1..Len(list2)
        IN  /\ \E P \in SUBSET all1 :
                  /\ Restrict(list1, P) = Exception1s(d)
                  /\ Restrict(list1, all1 \ P) = d.list1_only_exceptions
            /\ \E O \in SUBSET all2 :
                  /\ Restrict(list2, O) = d.list2_only_exceptions
                  /\ Cardinality(all2 \ O) = Len(d.paired_exceptions_diffs)
                  /\ \A e \in ExceptionUniverse :
                        Count(Restrict(list2, all2 \ O), e) = Count(Exception2s(d), e)

\* Witness of C7: both only-lists are non-empty and there is a pair with no
\* CSR difference.
C7_Witness ==
    /\ Called
    /\ Unwrap(diff1).list1_only_exceptions # <<>>
    /\ Unwrap(diff1).list2_only_exceptions # <<>>
    /\ \E k \in 1..Len(Unwrap(diff1).paired_exceptions_diffs) :
          Unwrap(diff1).paired_exceptions_diffs[k].csrs_differences = <<>>

\* C8 as claimed: two calls on the same lists return the same value.
C8_Deterministic ==
    cmp_pc = "called_twice" => diff1 = diff2

\* C9: a list compared with itself gives no only-entries, one pair per entry,
\* no CSR difference in any pair, no group, and is_empty().
C9_SelfCompare ==
    (Called /\ list1 = list2) =>
        LET d == Unwrap(diff1)
        IN  /\ d.list1_only_exceptions = <<>>
            /\ d.list2_only_exceptions = <<>>
            /\ Len(d.paired_exceptions_diffs) = Len(list1)
            /\ \A k \in 1..Len(d.paired_exceptions_diffs) :
                  d.paired_exceptions_diffs[k].csrs_differences = <<>>
            /\ d.categorized_summary = <<>>
            /\ is_empty(d)

\* Witness of C9: a list that repeats an mepc in two different entries has
\* been compared with itself.
C9_Witness ==
    /\ Called
    /\ list1 = list2
    /\ \E i, j \in 1..Len(list1) :
          /\ i < j
          /\ list1[i].csrs.mepc = list1[j].csrs.mepc
          /\ list1[i] # list1[j]

\* The category the classification table gives a raw difference record.
TableCategory(r) ==
    IF r.variant = "OnlyInSimulator"
    THEN [kind |-> "OnlyInSimulator", simulator |-> r.simulator, mcause |-> r.mcause]
    ELSE IF r.csr_name = "mip"
         THEN [kind |-> "FixedMipDifference", sim1_value |-> r.sim1_value,
               sim2_value |-> r.sim2_value]
    ELSE IF r.csr_name = "mcause"
         THEN [kind |-> "McauseDifference", sim1_cause |-> r.sim1_value,
               sim2_cause |-> r.sim2_value]
    ELSE IF r.csr_name = "mtval" THEN [kind |-> "MtvalDifference"]
    ELSE [kind |-> "OtherCsrDifference", csr_name |-> r.csr_name]

\* The raw records an unmatched entry and a pair stand for.
OnlyRecords(l, simulator) ==
    [k \in 1..Len(l) |->
        [variant |-> "OnlyInSimulator", simulator |-> simulator,
         pc |-> l[k].csrs.mepc, mcause |-> l[k].csrs.mcause,
         instruction_trace |-> l[k].inst_trace]]

RECURSIVE SumCounts(_)
SumCounts(groups) ==
    IF groups = <<>> THEN 0 ELSE Head(groups).count + SumCounts(Tail(groups))

RECURSIVE SumCsrDifferences(_)
SumCsrDifferences(pairs) ==
    IF pairs = <<>> THEN 0
    ELSE Len(Head(pairs).csrs_differences) + SumCsrDifferences(Tail(pairs))

\* C10: the raw records are one per unmatched entry (with the simulator of
\* its list and its mcause) and one per differing CSR of a pair; every raw
\* record is counted in exactly one group, the group of the category the
\* table gives it, and that group lists its mepc.  For A = [{mepc 0x1000,
\* mcause 2}] and B = [] the result is only_in_a = A and the single group
\* OnlyInSimulator{simulator of A, 2} with count 1 and pc_list [0x1000].
C10_Classification ==
    Called =>
        LET d == Unwrap(diff1)
            groups == d.categorized_summary
            raws == {raw_diffs[i] : i \in 1..Len(raw_diffs)}
        IN  /\ Len(raw_diffs) = Len(d.list1_only_exceptions)
                                + Len(d.list2_only_exceptions)
                                + SumCsrDifferences(d.paired_exceptions_diffs)
            /\ \A k \in 1..Len(d.list1_only_exceptions) :
                  OnlyRecords(d.list1_only_exceptions, sim1_type)[k] \in raws
            /\ \A k \in 1..Len(d.list2_only_exceptions) :
                  OnlyRecords(d.list2_only_exceptions, sim2_type)[k] \in raws
            /\ \A k \in 1..Len(d.paired_exceptions_diffs) :
                  LET p == d.paired_exceptions_diffs[k]
                  IN  \A j \in 1..Len(p.csrs_differences) :
                         [variant |-> "CsrDifference", pc |-> p.exception1.csrs.mepc,
                          csr_name |-> p.csrs_differences[j][1],
                          sim1_value |-> p.csrs_differences[j][2],
                          sim2_value |-> p.csrs_differences[j][3],
                          instruction_trace |-> p.exception1.inst_trace] \in raws
            /\ \A i \in 1..Len(raw_diffs) :
                  LET home == {g \in 1..Len(groups) :
                                  groups[g].category = TableCategory(raw_diffs[i])}
                  IN  /\ Cardinality(home) = 1
                      /\ \A g \in home :
                            /\ \E n \in 1..Len(groups[g].pc_list) :
                                  groups[g].pc_list[n] = raw_diffs[i].pc
                            /\ groups[g].count =
                                  Cardinality({j \in 1..Len(raw_diffs) :
                                      TableCategory(raw_diffs[j]) = groups[g].category})
            /\ SumCounts(groups) = Len(raw_diffs)
            /\ (/\ Len(list1) = 1
                /\ list1[1].csrs.mepc = U64(4096)
                /\ list1[1].csrs.mcause = U64(2)
                /\ list2 = <<>>)
               => /\ d.list1_only_exceptions = list1
                  /\ Len(groups) = 1
                  /\ groups[1].category = [kind |-> "OnlyInSimulator",
                                           simulator |-> sim1_type, mcause |-> U64(2)]
                  /\ groups[1].count = 1
                  /\ groups[1].pc_list = <<U64(4096)>>

\* Witness of C10: the raw records of one call hold a mip, an mcause, an
\* mtval and an mstatus difference and an entry of each list left unmatched.
C10_Witness ==
    /\ Called
    /\ \A n \in {"mip", "mcause", "mtval", "mstatus"} :
          \E i \in 1..Len(raw_diffs) :
             raw_diffs[i].variant = "CsrDifference" /\ raw_diffs[i].csr_name = n
    /\ \E i \in 1..Len(raw_diffs) :
          raw_diffs[i].variant = "OnlyInSimulator" /\ raw_diffs[i].simulator = sim1_type
    /\ \E i \in 1..Len(raw_diffs) :
          raw_diffs[i].variant = "OnlyInSimulator" /\ raw_diffs[i].simulator = sim2_type

\* The raw records of the first call that the table files under a category,
\* in the order in which they were pushed.
RecordsOf(category) ==
    LET hit(r) == TableCategory(r) = category
    IN  SelectSeq(raw_diffs, hit)

\* The records of a sequence at a given PC, in order.
AtPc(records, pc_) ==
    LET hit(r) == r.pc = pc_
    IN  SelectSeq(records, hit)

C12_GroupCountAndPcs ==
    Called =>
        LET groups == Unwrap(diff1).categorized_summary
        IN  /\ \A g, h \in 1..Len(groups) :
                  groups[g].category = groups[h].category => g = h
            /\ \A g \in 1..Len(groups) :
                  LET recs == RecordsOf(groups[g].category)
                      pcs == groups[g].pc_list
                  IN  /\ groups[g].count = Len(recs)
                      /\ {pcs[k] : k \in 1..Len(pcs)} = {recs[i].pc : i \in 1..Len(recs)}
                      /\ \A k \in 1..(Len(pcs) - 1) : SeqCmp(pcs[k], pcs[k + 1]) < 0

\* Witness of C12: a group of three records at two PCs, the first of which
\* is at the greater PC.
C12_Witness ==
    /\ Called
    /\ \E g \in 1..Len(Unwrap(diff1).categorized_summary) :
          LET group == Unwrap(diff1).categorized_summary[g]
              recs == RecordsOf(group.category)
          IN  /\ group.count = 3
              /\ Len(group.pc_list) = 2
              /\ recs[1].pc = group.pc_list[2]

\* C13: from one group to the next the count does not grow, and where it
\* stays the same the category name does not get smaller.
C13_SortedByCountThenName ==
    Called =>
        LET groups == Unwrap(diff1).categorized_summary
        IN  \A g \in 1..(Len(groups) - 1) :
               \/ groups[g].count > groups[g + 1].count
               \/ /\ groups[g].count = groups[g + 1].count
                  /\ SeqCmp(format_category_name(groups[g].category),
                            format_category_name(groups[g + 1].category)) <= 0

\* Witness of C13: a summary in which the count drops from one group to the
\* next and two later groups of equal count have different names.
C13_Witness ==
    /\ Called
    /\ LET groups == Unwrap(diff1).categorized_summary
       IN  /\ Len(groups) >= 3
           /\ groups[1].count > groups[2].count
           /\ \E g \in 2..(Len(groups) - 1) :
                 /\ groups[g].count = groups[g + 1].count
                 /\ format_category_name(groups[g].category)
                        # format_category_name(groups[g + 1].category)

\* C30: in every result the group counts sum to the number of entries of the
\* two only-lists plus the number of CSR differences over all pairs, so the
\* summary is empty exactly when both only-lists are empty and no pair has a
\* CSR difference, which is when is_empty() holds.
C30_CountsAddUp ==
    Called =>
        LET d == Unwrap(diff1)
            nothing_differs ==
                /\ d.list1_only_exceptions = <<>>
                /\ d.list2_only_exceptions = <<>>
                /\ \A k \in 1..Len(d.paired_exceptions_diffs) :
                      d.paired_exceptions_diffs[k].csrs_differences = <<>>
        IN  /\ SumCounts(d.categorized_summary)
                  = Len(d.list1_only_exceptions) + Len(d.list2_only_exceptions)
                    + SumCsrDifferences(d.paired_exceptions_diffs)
            /\ \A g \in 1..Len(d.categorized_summary) : d.categorized_summary[g].count >= 1
            /\ (d.categorized_summary = <<>>) <=> nothing_differs
            /\ is_empty(d) <=> nothing_differs

\* Witness of C30: a result with entries in both only-lists and a pair with
\* several CSR differences, whose groups count at least four records.
C30_Witness ==
    /\ Called
    /\ Unwrap(diff1).list1_only_exceptions # <<>>
    /\ Unwrap(diff1).list2_only_exceptions # <<>>
    /\ \E k \in 1..Len(Unwrap(diff1).paired_exceptions_diffs) :
          Len(Unwrap(diff1).paired_exceptions_diffs[k].csrs_differences) >= 2
    /\ SumCounts(Unwrap(diff1).categorized_summary) >= 4

-----------------------------------------------------------------------------
(***************************************************************************)
(* compare_registers_dumps  (src/src/output_diff/diff/mod.rs)              *)
(* Register indices are the code's, 0..31; register i of a dump is         *)
(* int_registers[i + 1].                                                   *)
(***************************************************************************)
get_register_name(reg_num) ==
    IF reg_num \in 0..31
    THEN <<"zero", "ra", "sp", "gp", "tp", "t0", "t1", "t2", "s0", "s1", "a0",
           "a1", "a2", "a3", "a4", "a5", "a6", "a7", "s2", "s3", "s4", "s5",
           "s6", "s7", "s8", "s9", "s10", "s11", "t3", "t4", "t5", "t6">>[reg_num + 1]
    ELSE "invalid"

\* The order in which compare_core_csrs tests the fields.
CoreCsrCompareOrder ==
    <<"mstatus", "misa", "medeleg", "mideleg", "mie", "mtvec", "mcounteren",
      "mscratch", "mepc", "mcause", "mtval", "mip", "mcycle", "minstret",
      "mvendorid", "marchid", "mimpid", "mhartid">>

\* Mutant of compare_core_csrs: mhartid is not compared.
compare_core_csrs_noHartid(csrs1, csrs2) ==
    LET all == [k \in 1..(Len(CoreCsrCompareOrder) - 1) |->
                   <<CoreCsrCompareOrder[k], csrs1[CoreCsrCompareOrder[k]],
                     csrs2[CoreCsrCompareOrder[k]]>>]
        differs(t) == t[2] # t[3]
    IN  SelectSeq(all, differs)

\* The (name, value1, value2) triples pushed onto diff_list.
compare_core_csrs(csrs1, csrs2) ==
    LET all == [k \in 1..Len(CoreCsrCompareOrder) |->
                   <<CoreCsrCompareOrder[k], csrs1[CoreCsrCompareOrder[k]],
                     csrs2[CoreCsrCompareOrder[k]]>>]
        differs(t) == t[2] # t[3]
    IN  SelectSeq(all, differs)

\* for i in 0..32 { if dump1.int_registers[i] != dump2.int_registers[i] { push } }
IntRegistersDiff(regs1, regs2) ==
    LET all == [k \in 1..32 |->
                   <<k - 1, get_register_name(k - 1), regs1[k], regs2[k]>>]
        differs(t) == t[3] # t[4]
    IN  SelectSeq(all, differs)

\* for i in 0..32 { if fr1[i] != fr2[i] { push } }
FloatRegistersDiff(fr1, fr2) ==
    LET all == [k \in 1..32 |-> <<k - 1, fr1[k], fr2[k]>>]
        differs(t) == t[2] # t[3]
    IN  SelectSeq(all, differs)

\* Mutant of StatusChanged: a file missing on the first side goes unreported.
StatusChanged_firstOnly(o1, o2) ==
    IF IsSome(o1) /\ ~IsSome(o2) THEN Some(<<"Present", "Absent">>)
    ELSE None

\* The (Some, None) and (None, Some) arms of the two matches.
StatusChanged(o1, o2) ==
    IF IsSome(o1) /\ ~IsSome(o2) THEN Some(<<"Present", "Absent">>)
    ELSE IF ~IsSome(o1) /\ IsSome(o2) THEN Some(<<"Absent", "Present">>)
    ELSE None

compare_registers_dumps(d1, d2, sim1, sim2) ==
    [emulator_type1 |-> sim1,
     emulator_type2 |-> sim2,
     int_registers_diff |-> IntRegistersDiff(d1.int_registers, d2.int_registers),
     core_csrs_diff |-> compare_core_csrs(d1.core_csrs, d2.core_csrs),
     float_registers_status_changed |-> StatusChanged(d1.float_registers, d2.float_registers),
     float_registers_diff |->
         IF IsSome(d1.float_registers) /\ IsSome(d2.float_registers)
         THEN FloatRegistersDiff(Unwrap(d1.float_registers), Unwrap(d2.float_registers))
         ELSE <<>>,
     float_csr_status_changed |-> StatusChanged(d1.float_csr, d2.float_csr),
     float_csr_diff |->
         IF IsSome(d1.float_csr) /\ IsSome(d2.float_csr)
            /\ Unwrap(d1.float_csr) # Unwrap(d2.float_csr)
         THEN Some(<<Unwrap(d1.float_csr), Unwrap(d2.float_csr)>>)
         ELSE None]

\* RegistersDumpDiff::is_empty
RegistersDumpDiff_is_empty(d) ==
    /\ d.int_registers_diff = <<>>
    /\ d.core_csrs_diff = <<>>
    /\ d.float_registers_status_changed = None
    /\ d.float_registers_diff = <<>>
    /\ d.float_csr_status_changed = None
    /\ d.float_csr_diff = None

\* compare_registers_dumps(dump1, dump2, ..)
CompareRegs ==
    /\ reg_pc = "ready"
    /\ regs_diff' = Some(compare_registers_dumps(Unwrap(dump1), Unwrap(dump2),
                                                 sim1_type, sim2_type))
    /\ reg_pc' = "compared"
    /\ UNCHANGED <<dump1, dump2, regs_diff_rev, decVars, cmpVars, minVars, stdVars, extVars>>

\* compare_registers_dumps(dump2, dump1, ..)
CompareRegsSwapped ==
    /\ reg_pc = "compared"
    /\ regs_diff_rev' = Some(compare_registers_dumps(Unwrap(dump2), Unwrap(dump1),
                                                     sim2_type, sim1_type))
    /\ reg_pc' = "compared_both"
    /\ UNCHANGED <<dump1, dump2, regs_diff, decVars, cmpVars, minVars, stdVars, extVars>>

RegNext == CompareRegs \/ CompareRegsSwapped

\* ---- inputs ----
\* The register files and CSR sets differ from the all-zero one in the
\* places a variant number names: variant 0 nowhere, variant 1 in the first
\* and the last place, variant v > 1 in place v.
MaxRegVariant == 1

Varied(v, place, places) ==
    v > 0 /\ (place - 1) % (places - 1) = (v - 1) % (places - 1)

RegisterFile(v) == [k \in 1..32 |-> U64(IF Varied(v, k, 32) THEN 1 ELSE 0)]

CoreCSRs(v) ==
    [n \in {CoreCsrCompareOrder[k] : k \in 1..18} |->
        LET k == CHOOSE j \in 1..18 : CoreCsrCompareOrder[j] = n
        IN  U64(IF Varied(v, k, 18) THEN 1 ELSE 0)]

RegistersDump(iv, cv, float_registers, float_csr) ==
    [dump_type |-> IF IsSome(float_registers) THEN RegistersIntAndFloat
                   ELSE RegistersIntOnly,
     int_registers |-> RegisterFile(iv),
     core_csrs |-> CoreCSRs(cv),
     float_registers |-> float_registers,
     float_csr |-> float_csr,
     position |-> 0]

RegistersDumps ==
    {RegistersDump(iv, cv, fr, fc) :
        iv \in 0..MaxRegVariant, cv \in 0..MaxRegVariant,
        fr \in {None} \cup {Some(RegisterFile(fv)) : fv \in 0..MaxRegVariant},
        fc \in {None, Some(U64(0)), Some(U64(1))}}

RegInit ==
    /\ dump1 \in {Some(d) : d \in RegistersDumps}
    /\ dump2 \in {Some(d) : d \in RegistersDumps}
    /\ reg_pc = "ready"
    /\ regs_diff = None /\ regs_diff_rev = None
    /\ DecIdle /\ CmpIdle /\ MinIdle /\ StdIdle /\ ExtIdle

SpecRegisters == RegInit /\ [][RegNext]_vars

-----------------------------------------------------------------------------
(***************************************************************************)
(* Properties of compare_registers_dumps                                   *)
(***************************************************************************)
Compared == reg_pc \in {"compared", "compared_both"}

\* The places in which two register files differ, as the code's indices.
DifferingIndices(regs1, regs2) == {i \in 0..31 : regs1[i + 1] # regs2[i + 1]}

DifferingCsrs(csrs1, csrs2) == {n \in DOMAIN csrs1 : csrs1[n] # csrs2[n]}

\* The first components of the tuples of a difference list.
Keys(tuples) == {tuples[k][1] : k \in 1..Len(tuples)}

\* C14: the difference holds one integer-register tuple for each differing
\* index and no other, one CSR tuple for each differing core CSR and no
\* other, one float-register tuple for each differing index when both dumps
\* have a float file and none otherwise, each with the two values it stands
\* for; a presence marker exactly when one dump has the float file (the
\* float CSR) and the other has not; and it is empty exactly when the two
\* dumps agree in all of these fields, so a dump compared with itself gives
\* an empty difference.
C14_RegistersDiffExact ==
    Compared =>
        LET a == Unwrap(dump1)
            b == Unwrap(dump2)
            d == Unwrap(regs_diff)
            both_float == IsSome(a.float_registers) /\ IsSome(b.float_registers)
        IN  /\ Keys(d.int_registers_diff) = DifferingIndices(a.int_registers, b.int_registers)
            /\ Len(d.int_registers_diff) = Cardinality(Keys(d.int_registers_diff))
            /\ \A k \in 1..Len(d.int_registers_diff) :
                  LET t == d.int_registers_diff[k]
                  IN  t[3] = a.int_registers[t[1] + 1] /\ t[4] = b.int_registers[t[1] + 1]
            /\ Keys(d.core_csrs_diff) = DifferingCsrs(a.core_csrs, b.core_csrs)
            /\ Len(d.core_csrs_diff) = Cardinality(Keys(d.core_csrs_diff))
            /\ \A k \in 1..Len(d.core_csrs_diff) :
                  LET t == d.core_csrs_diff[k]
                  IN  t[2] = a.core_csrs[t[1]] /\ t[3] = b.core_csrs[t[1]]
            /\ Keys(d.float_registers_diff) =
                  (IF both_float
                   THEN DifferingIndices(Unwrap(a.float_registers), Unwrap(b.float_registers))
                   ELSE {})
            /\ Len(d.float_registers_diff) = Cardinality(Keys(d.float_registers_diff))
            /\ \A k \in 1..Len(d.float_registers_diff) :
                  LET t == d.float_registers_diff[k]
                  IN  /\ t[2] = Unwrap(a.float_registers)[t[1] + 1]
                      /\ t[3] = Unwrap(b.float_registers)[t[1] + 1]
            /\ IsSome(d.float_registers_status_changed)
                  <=> (IsSome(a.float_registers) # IsSome(b.float_registers))
            /\ IsSome(d.float_csr_status_changed)
                  <=> (IsSome(a.float_csr) # IsSome(b.float_csr))
            /\ RegistersDumpDiff_is_empty(d)
                  <=> /\ a.int_registers = b.int_registers
                      /\ a.core_csrs = b.core_csrs
                      /\ a.float_registers = b.float_registers
                      /\ a.float_csr = b.float_csr
            /\ a = b => RegistersDumpDiff_is_empty(d)

\* Witness of C14: two dumps that differ in the first and the last integer
\* register, in mhartid and in a float register, one of them without fcsr.
C14_Witness ==
    /\ Compared
    /\ {0, 31} \subseteq Keys(Unwrap(regs_diff).int_registers_diff)
    /\ "mhartid" \in Keys(Unwrap(regs_diff).core_csrs_diff)
    /\ Unwrap(regs_diff).float_registers_diff # <<>>
    /\ IsSome(Unwrap(regs_diff).float_csr_status_changed)

\* A presence marker seen from the other side.
Mirrored(status) ==
    IF status = None THEN None ELSE Some(<<Unwrap(status)[2], Unwrap(status)[1]>>)

\* C15: compare_registers(b, a) reports what compare_registers(a, b) reports
\* with the two values of every tuple exchanged and the presence markers
\* mirrored.
C15_SwapSymmetric ==
    reg_pc = "compared_both" =>
        LET ab == Unwrap(regs_diff)
            ba == Unwrap(regs_diff_rev)
        IN  /\ ba.int_registers_diff =
                  [k \in 1..Len(ab.int_registers_diff) |->
                      LET t == ab.int_registers_diff[k] IN <<t[1], t[2], t[4], t[3]>>]
            /\ ba.core_csrs_diff =
                  [k \in 1..Len(ab.core_csrs_diff) |->
                      LET t == ab.core_csrs_diff[k] IN <<t[1], t[3], t[2]>>]
            /\ ba.float_registers_diff =
                  [k \in 1..Len(ab.float_registers_diff) |->
                      LET t == ab.float_registers_diff[k] IN <<t[1], t[3], t[2]>>]
            /\ ba.float_registers_status_changed = Mirrored(ab.float_registers_status_changed)
            /\ ba.float_csr_status_changed = Mirrored(ab.float_csr_status_changed)
            /\ ba.float_csr_diff = Mirrored(ab.float_csr_diff)

\* Witness of C15: both orders have been compared for two dumps that differ
\* in an integer register and a core CSR, of which only the second has a
\* float file, and whose float CSRs differ.
C15_Witness ==
    /\ reg_pc = "compared_both"
    /\ Unwrap(regs_diff).int_registers_diff # <<>>
    /\ Unwrap(regs_diff).core_csrs_diff # <<>>
    /\ Unwrap(regs_diff).float_registers_status_changed = Some(<<"Absent", "Present">>)
    /\ IsSome(Unwrap(regs_diff).float_csr_diff)

-----------------------------------------------------------------------------
(***************************************************************************)
(* extract_minimal_instructions_for_regs                                   *)
(*   (src/src/output_diff/analysis/shortten_asm_for_regs.rs)               *)
(* get_regs_in_inst, process_token  (src/src/utils.rs)                     *)
(* A string is the sequence of its characters, each a one-character        *)
(* string; all characters are ASCII, so byte length and character count    *)
(* coincide.                                                               *)
(***************************************************************************)
Digits == <<"0", "1", "2", "3", "4", "5", "6", "7", "8", "9">>
IsDigit(c) == \E k \in 1..10 : Digits[k] = c
DigitValue(c) == (CHOOSE k \in 1..10 : Digits[k] = c) - 1

\* The characters of the alphabet that char::is_whitespace accepts.
WhitespaceChars == {" ", "\t", "\n", "\r"}

\* token.trim_matches(|c| c.is_whitespace() || c == ',' || c == ':')
RECURSIVE trim_matches(_)
trim_matches(token) ==
    LET strip(c) == c \in WhitespaceChars \cup {",", ":"}
    IN  IF token = <<>> THEN <<>>
        ELSE IF strip(token[1]) THEN trim_matches(Tail(token))
        ELSE IF strip(token[Len(token)]) THEN trim_matches(SubSeq(token, 1, Len(token) - 1))
        ELSE token

RECURSIVE StripLeadingZeros(_)
StripLeadingZeros(ds) ==
    IF Len(ds) > 1 /\ ds[1] = "0" THEN StripLeadingZeros(Tail(ds)) ELSE ds

\* u32::MAX in decimal.
U32MaxDigits == <<4, 2, 9, 4, 9, 6, 7, 2, 9, 5>>

\* str::parse::<u32>: an optional '+', then one or more decimal digits, whose
\* value fits 32 bits.  The number is returned as its decimal digits without
\* leading zeros.
parse_u32(s) ==
    LET ds == IF s # <<>> /\ s[1] = "+" THEN Tail(s) ELSE s
        canonical == StripLeadingZeros(ds)
        values == [k \in 1..Len(canonical) |-> DigitValue(canonical[k])]
    IN  IF ds = <<>> \/ \E k \in 1..Len(ds) : ~IsDigit(ds[k]) THEN None
        ELSE IF Len(canonical) > 10
                \/ (Len(canonical) = 10 /\ SeqCmp(values, U32MaxDigits) > 0) THEN None
        ELSE Some(canonical)

\* reg_num <= 31, for a number given by its decimal digits.
AtMost31(num) ==
    \/ Len(num) = 1
    \/ Len(num) = 2 /\ DigitValue(num[1]) * 10 + DigitValue(num[2]) <= 31

\* regs after process_token(token, &mut regs).
process_token(token, regs) ==
    LET cleaned_token == trim_matches(token)
        first_char == cleaned_token[1]
        rest == Tail(cleaned_token)
    IN  IF Len(cleaned_token) < 2 THEN regs
        ELSE IF first_char \in {"x", "f"}
                /\ IsSome(parse_u32(rest)) /\ AtMost31(Unwrap(parse_u32(rest)))
        THEN Append(regs, cleaned_token)
        ELSE regs

\* The characters at which get_regs_in_inst ends a token.
Separators == {"(", ")", ",", " ", "\t"}

\* The loop over inst.chars(), from character i on.
RECURSIVE CharLoop(_, _, _, _)
CharLoop(inst, i, current_token, regs) ==
    IF i > Len(inst)
    THEN IF current_token # <<>> THEN process_token(current_token, regs) ELSE regs
    ELSE IF inst[i] \in Separators
    THEN CharLoop(inst, i + 1, <<>>,
                  IF current_token # <<>> THEN process_token(current_token, regs)
                  ELSE regs)
    ELSE CharLoop(inst, i + 1, Append(current_token, inst[i]), regs)

get_regs_in_inst(inst) == CharLoop(inst, 1, <<>>, <<>>)

\* The elements of a Vec as a set.
ToSet(s) == {s[k] : k \in 1..Len(s)}

\* Mutant of VisitInst: only the first register of a kept instruction is added
\* to the interest set.
VisitInst_firstRegOnly(inst, st) ==
    LET regs_in_inst == get_regs_in_inst(inst)
        has_interested_reg == \E k \in 1..Len(regs_in_inst) :
                                  regs_in_inst[k] \in st.interested_regs
    IN  IF has_interested_reg
        THEN [interested_regs |-> st.interested_regs \cup {regs_in_inst[1]},
              result_instructions |-> Append(st.result_instructions, inst)]
        ELSE st

\* The body of `for inst in insts.iter().rev()`.
VisitInst(inst, st) ==
    LET regs_in_inst == get_regs_in_inst(inst)
        has_interested_reg == \E k \in 1..Len(regs_in_inst) :
                                  regs_in_inst[k] \in st.interested_regs
    IN  IF has_interested_reg
        THEN [interested_regs |-> st.interested_regs \cup ToSet(regs_in_inst),
              result_instructions |-> Append(st.result_instructions, inst)]
        ELSE st

\* Mutant of ReverseLoop: the pass stops before the first instruction.
RECURSIVE ReverseLoop_skipFirst(_, _, _)
ReverseLoop_skipFirst(is, i, st) ==
    IF i <= 1 THEN st ELSE ReverseLoop_skipFirst(is, i - 1, VisitInst(is[i], st))

\* The reverse loop with instruction i next to be visited.
RECURSIVE ReverseLoop(_, _, _)
ReverseLoop(is, i, st) ==
    IF i = 0 THEN st ELSE ReverseLoop(is, i - 1, VisitInst(is[i], st))

\* Mutant of extract_minimal_instructions_for_regs: the result is returned in
\* the order in which the reverse loop collected it.
extract_minimal_instructions_for_regs_unreversed(is, targets) ==
    IF is = <<>> \/ targets = <<>> THEN <<>>
    ELSE ReverseLoop(is, Len(is),
                     [interested_regs |-> ToSet(targets),
                      result_instructions |-> <<>>]).result_instructions

\* Mutant of extract_minimal_instructions_for_regs: without the early return
\* for an empty target list, and with every instruction kept in that case.
extract_minimal_instructions_for_regs_noEarlyReturn(is, targets) ==
    IF targets = <<>> THEN is
    ELSE Reverse(ReverseLoop(is, Len(is),
                             [interested_regs |-> ToSet(targets),
                              result_instructions |-> <<>>]).result_instructions)

extract_minimal_instructions_for_regs(is, targets) ==
    IF is = <<>> \/ targets = <<>> THEN <<>>
    ELSE Reverse(ReverseLoop(is, Len(is),
                             [interested_regs |-> ToSet(targets),
                              result_instructions |-> <<>>]).result_instructions)

\* minimize(insts, target_regs)
Minimize ==
    /\ min_pc = "ready"
    /\ min_result' = extract_minimal_instructions_for_regs(insts, target_regs)
    /\ min_pc' = "minimized"
    /\ UNCHANGED <<insts, target_regs, min_again, decVars, cmpVars, regVars, stdVars, extVars>>

\* minimize(min_result, target_regs)
MinimizeAgain ==
    /\ min_pc = "minimized"
    /\ min_again' = extract_minimal_instructions_for_regs(min_result, target_regs)
    /\ min_pc' = "minimized_twice"
    /\ UNCHANGED <<insts, target_regs, min_result, decVars, cmpVars, regVars, stdVars, extVars>>

MinNext == Minimize \/ MinimizeAgain

\* ---- inputs ----
\* The instruction texts the lists are drawn from.
InstructionTexts ==
    << <<"a", "d", "d", "i", " ", "x", "5", ",", "x", "0", ",", "1">>, \* addi x5,x0,1
       <<"a", "d", "d", "i", " ", "x", "6", ",", "x", "0", ",", "2">>, \* addi x6,x0,2
       <<"a", "d", "d", " ", "x", "7", ",", "x", "5", ",", "x", "6">>, \* add x7,x5,x6
       <<"a", "d", "d", "i", " ", "x", "8", ",", "x", "0", ",", "9">>, \* addi x8,x0,9
       <<"s", "d", " ", "x", "8", ",", " ", "0", "(", "x", "7", ")">>, \* sd x8, 0(x7)
       <<"l", "d", " ", "t", "0", ",", " ", "8", "(", "s", "p", ")">> >> \* ld t0, 8(sp)

\* The target register lists: none, one register, two registers, and an ABI
\* alias that no instruction token can equal.
TargetLists ==
    { <<>>,
      << <<"x", "7">> >>,
      << <<"x", "8">> >>,
      << <<"x", "5">>, <<"x", "6">> >>,
      << <<"t", "0">> >> }

\* An instruction list holds at most MaxInsts instructions.
MaxInsts == 4

RECURSIVE InstListsOf(_)
InstListsOf(n) ==
    IF n = 0 THEN {<<>>}
    ELSE LET shorter == InstListsOf(n - 1)
         IN  shorter \cup {Append(l, InstructionTexts[k]) :
                               l \in {s \in shorter : Len(s) = n - 1},
                               k \in 1..Len(InstructionTexts)}

MinInit ==
    /\ insts \in InstListsOf(MaxInsts)
    /\ target_regs \in TargetLists
    /\ min_pc = "ready"
    /\ min_result = <<>> /\ min_again = <<>>
    /\ DecIdle /\ CmpIdle /\ RegIdle /\ StdIdle /\ ExtIdle

SpecMinimize == MinInit /\ [][MinNext]_vars

-----------------------------------------------------------------------------
(***************************************************************************)
(* Properties of extract_minimal_instructions_for_regs                     *)
(***************************************************************************)
Minimized == min_pc \in {"minimized", "minimized_twice"}

\* The register-token sets of the first n instructions of the input.
RECURSIVE TokenSets(_)
TokenSets(n) ==
    IF n = 0 THEN <<>>
    ELSE Append(TokenSets(n - 1), ToSet(get_regs_in_inst(insts[n])))

\* The positions kept by a reverse pass that is about to visit instruction i
\* with the given interest set, having kept the positions in `kept`.
RECURSIVE ReversePass(_, _, _, _)
ReversePass(tokens, i, interest, kept) ==
    IF i = 0 THEN kept
    ELSE IF tokens[i] \cap interest # {}
    THEN ReversePass(tokens, i - 1, interest \cup tokens[i], kept \cup {i})
    ELSE ReversePass(tokens, i - 1, interest, kept)

\* The positions one reverse pass keeps: those whose token set meets the
\* interest set when they are visited, the interest set being the targets
\* and the tokens of every instruction kept so far.
KeptByReversePass ==
    ReversePass(TokenSets(Len(insts)), Len(insts), ToSet(target_regs), {})

\* C16: the result is the input restricted to the instructions whose token
\* set meets the interest set when the reverse pass visits them, in program
\* order; for the four-instruction example with target x7 it is the first
\* three instructions.
C16_ReversePassSubsequence ==
    Minimized =>
        /\ min_result = Restrict(insts, KeptByReversePass)
        /\ (/\ insts = SubSeq(InstructionTexts, 1, 4)
            /\ target_regs = << <<"x", "7">> >>)
           => min_result = SubSeq(InstructionTexts, 1, 3)

\* Witness of C16: the example has been minimized.
C16_Witness ==
    /\ Minimized
    /\ insts = SubSeq(InstructionTexts, 1, 4)
    /\ target_regs = << <<"x", "7">> >>
    /\ Len(min_result) = 3

\* K holds every position whose tokens meet the targets and, with every
\* position it holds, every earlier position that shares a token with it.
ClosedUnderDependency(K, tokens, targets) ==
    /\ \A i \in 1..Len(tokens) : tokens[i] \cap targets # {} => i \in K
    /\ \A j \in K : \A i \in 1..(j - 1) : tokens[i] \cap tokens[j] # {} => i \in K

\* The result is the input at some set of positions closed under dependency.
KeepsClosedSet(tokens, targets) ==
    \E K \in SUBSET (1..Len(tokens)) :
        ClosedUnderDependency(K, tokens, targets) /\ Restrict(insts, K) = min_result

\* C17: the kept instructions can be read as a set K of positions of the
\* input that holds every instruction mentioning a target register and, with
\* every instruction in K, every earlier instruction that mentions one of
\* its registers.
C17_NothingRelevantRemoved ==
    (Minimized /\ insts # <<>> /\ target_regs # <<>>) =>
        KeepsClosedSet(TokenSets(Len(insts)), ToSet(target_regs))

\* Witness of C17: of four instructions one was removed and one was kept
\* that mentions no target register.
C17_Witness ==
    /\ Minimized
    /\ Len(insts) = 4
    /\ Len(min_result) = 3
    /\ \E i \in KeptByReversePass :
          ToSet(get_regs_in_inst(insts[i])) \cap ToSet(target_regs) = {}

\* C18: minimizing the result again with the same targets returns it
\* unchanged.
C18_FixedPoint ==
    min_pc = "minimized_twice" => min_again = min_result

\* Witness of C18: a result of at least two instructions, shorter than the
\* input, has been minimized again.
C18_Witness ==
    /\ min_pc = "minimized_twice"
    /\ Len(min_result) >= 2
    /\ Len(min_result) < Len(insts)

\* C19: an empty instruction list or an empty target list gives an empty
\* result.
C19_EmptyInputs ==
    (Minimized /\ (insts = <<>> \/ target_regs = <<>>)) => min_result = <<>>

\* Witness of C19: instructions that mention registers have been minimized
\* for an empty target list.
C19_Witness ==
    /\ Minimized
    /\ target_regs = <<>>
    /\ insts # <<>>
    /\ get_regs_in_inst(insts[1]) # <<>>
-----------------------------------------------------------------------------
(***************************************************************************)
(* The tokenizer on its own  (src/src/utils.rs)                            *)
(***************************************************************************)
\* get_regs_in_inst(inst_text)
Tokenize ==
    /\ tok_pc = "ready"
    /\ regs_found' = get_regs_in_inst(inst_text)
    /\ tok_pc' = "tokenized"
    /\ UNCHANGED <<inst_text, decVars, cmpVars, regVars, minVars, stdVars, parVars, pipeVars>>

TokNext == Tokenize

\* ---- inputs ----
\* The pieces an instruction text is put together from: register names,
\* numbers out of range, ABI aliases, signed and malformed numbers, a label,
\* and the separators.
TextPieces ==
    { <<"x", "5">>, <<"f", "3", "1">>, <<"x", "3", "2">>, <<"t", "0">>,
      <<"x", "+", "5">>, <<"x", "0", "7">>, <<"f", "a">>, <<"x", "5", ":">>,
      <<"a", "d", "d">>, <<"x">>, <<"1">>,
      <<" ">>, <<",">>, <<"(">>, <<")">>, <<"\t">> }

\* An instruction text holds at most MaxPieces pieces.
MaxPieces == 3

RECURSIVE TextsOf(_)
TextsOf(n) ==
    IF n = 0 THEN {<<>>}
    ELSE LET shorter == TextsOf(n - 1)
         IN  shorter \cup {t \o piece : t \in shorter, piece \in TextPieces}

TokInit ==
    /\ inst_text \in TextsOf(MaxPieces)
    /\ tok_pc = "ready"
    /\ regs_found = <<>>
    /\ DecIdle /\ CmpIdle /\ RegIdle /\ MinIdle /\ StdIdle /\ ParIdle /\ PipeIdle

SpecTokenize == TokInit /\ [][TokNext]_vars

\* ---- properties of the tokenizer ----
\* The maximal runs of characters of text between separators, in order.
RECURSIVE SplitAtSeparators(_, _)
SplitAtSeparators(text, run) ==
    IF text = <<>> THEN (IF run = <<>> THEN <<>> ELSE <<run>>)
    ELSE IF text[1] \in {" ", "\t", ",", "(", ")"}
    THEN (IF run = <<>> THEN <<>> ELSE <<run>>) \o SplitAtSeparators(Tail(text), <<>>)
    ELSE SplitAtSeparators(Tail(text), Append(run, text[1]))

\* A token without the whitespace, commas and colons around it.
RECURSIVE Stripped(_)
Stripped(t) ==
    IF t = <<>> THEN t
    ELSE IF t[1] \in {" ", "\t", "\n", "\r", ",", ":"} THEN Stripped(Tail(t))
    ELSE IF t[Len(t)] \in {" ", "\t", "\n", "\r", ",", ":"}
    THEN Stripped(SubSeq(t, 1, Len(t) - 1))
    ELSE t

\* The value of a run of decimal digits.
RECURSIVE DecimalValue(_)
DecimalValue(ds) ==
    IF ds = <<>> THEN 0
    ELSE 10 * DecimalValue(SubSeq(ds, 1, Len(ds) - 1)) + DigitValue(ds[Len(ds)])

\* The letter x or f followed by decimal digits only, of a value in 0..31.
IsRegisterToken(t) ==
    /\ Len(t) >= 2
    /\ t[1] \in {"x", "f"}
    /\ \A i \in 2..Len(t) : IsDigit(t[i])
    /\ DecimalValue(Tail(t)) <= 31

RECURSIVE StripAll(_)
StripAll(tokens) ==
    IF tokens = <<>> THEN <<>> ELSE <<Stripped(tokens[1])>> \o StripAll(Tail(tokens))

RegisterTokensOf(text) == SelectSeq(StripAll(SplitAtSeparators(text, <<>>)), IsRegisterToken)

\* C25: the tokenizer returns, in order of appearance, exactly the stripped
\* tokens of the text that are the letter x or f followed by decimal digits of
\* a value in 0..31.
C25_ExactlyRegisterTokens ==
    tok_pc = "tokenized" => regs_found = RegisterTokensOf(inst_text)

\* The part of C25 that holds: every register token is returned, in order,
\* and every token returned is an x or f followed by a number in 0..31 that
\* may carry a plus sign.
C25_RegisterTokensUpToSign ==
    tok_pc = "tokenized" =>
        /\ RegisterTokensOf(inst_text)
              = SelectSeq(regs_found, LAMBDA t : t[2] # "+")
        /\ \A k \in 1..Len(regs_found) :
              LET t == regs_found[k]
              IN  t[2] = "+" =>
                     IsRegisterToken(<<t[1]>> \o SubSeq(t, 3, Len(t)))
-----------------------------------------------------------------------------
(***************************************************************************)
(* run_parallel_random_tests  (src/src/main.rs)                            *)
(*                                                                         *)
(* One test instance per item of (0..num_threads).into_par_iter().  The    *)
(* closure of an instance is two steps: the atomic fetch_add with the      *)
(* naming of its directory, and the run of the test.  try_for_each hands   *)
(* out no further item once a closure has returned Err, and returns when   *)
(* no instance is running.                                                 *)
(***************************************************************************)
Instances == 1..num_threads

\* Mutant of fetch_add: the counter is read but not advanced.
fetch_add_loadOnly(c, n) == [previous |-> c, value |-> c]

\* AtomicUsize::fetch_add(n, SeqCst): the previous value, and the new one.
fetch_add(c, n) == [previous |-> c, value |-> c + n]

\* The decimal digits of n, most significant first.
RECURSIVE DecimalDigits(_)
DecimalDigits(n) ==
    IF n < 10 THEN <<Digits[n + 1]>>
    ELSE Append(DecimalDigits(n \div 10), Digits[(n % 10) + 1])

\* format!("test_{:06}", test_id): at least six digits, padded with zeros.
TestDirName(id) ==
    LET ds == DecimalDigits(id)
        zeros == [k \in 1..(IF Len(ds) < 6 THEN 6 - Len(ds) ELSE 0) |-> "0"]
    IN  <<"t", "e", "s", "t", "_">> \o zeros \o ds

\* Mutant of ClosureResult: the error of the test is passed on.
ClosureResult_propagate(r) == r

\* What the closure returns after run_single_random_test returned r: the
\* match logs either arm and the closure ends in Ok(()).
ClosureResult(r) == "Ok"

\* try_for_each has seen a closure return Err.
Stopped == \E w \in Instances : closure_result[w] = Some("Err")

\* ThreadPoolBuilder::build_global succeeds, or fails and the batch returns
\* the configuration error.
BuildPool ==
    /\ pool = "unbuilt"
    /\ \/ pool' = "built" /\ UNCHANGED batch_result
       \/ pool' = "failed" /\ batch_result' = Some("Err")
    /\ UNCHANGED <<num_threads, counter, worker_pc, test_id, test_dir, run_result,
                   closure_result, decVars, cmpVars, regVars, minVars, stdVars,
                   tokVars, pipeVars>>

FetchIdGuard(w) == pool = "built" /\ worker_pc[w] = "waiting" /\ ~Stopped

\* The closure of instance w up to the start of its test.
FetchId(w) ==
    /\ FetchIdGuard(w)
    /\ LET r == fetch_add(counter, 1)
       IN  /\ counter' = r.value
           /\ test_id' = [test_id EXCEPT ![w] = Some(r.previous)]
           /\ test_dir' = [test_dir EXCEPT ![w] = Some(TestDirName(r.previous))]
    /\ worker_pc' = [worker_pc EXCEPT ![w] = "running"]
    /\ UNCHANGED <<num_threads, pool, run_result, closure_result, batch_result,
                   decVars, cmpVars, regVars, minVars, stdVars, tokVars, pipeVars>>

\* run_single_random_test of instance w returns, and with it the closure.
RunTest(w) ==
    /\ worker_pc[w] = "running"
    /\ \E r \in {"Ok", "Err"} :
          /\ run_result' = [run_result EXCEPT ![w] = Some(r)]
          /\ closure_result' = [closure_result EXCEPT ![w] = Some(ClosureResult(r))]
    /\ worker_pc' = [worker_pc EXCEPT ![w] = "finished"]
    /\ UNCHANGED <<num_threads, counter, pool, test_id, test_dir, batch_result,
                   decVars, cmpVars, regVars, minVars, stdVars, tokVars, pipeVars>>

\* try_for_each returns, and the batch with it.
BatchReturn ==
    /\ pool = "built"
    /\ batch_result = None
    /\ \A w \in Instances : worker_pc[w] # "running"
    /\ Stopped \/ \A w \in Instances : worker_pc[w] = "finished"
    /\ batch_result' = Some(IF Stopped THEN "Err" ELSE "Ok")
    /\ UNCHANGED <<num_threads, counter, pool, worker_pc, test_id, test_dir, run_result,
                   closure_result, decVars, cmpVars, regVars, minVars, stdVars,
                   tokVars, pipeVars>>

ParNext ==
    \/ BuildPool
    \/ \E w \in Instances : FetchId(w)
    \/ \E w \in Instances : RunTest(w)
    \/ BatchReturn

\* At most MaxWorkers instances run in a batch.
MaxWorkers == 3

ParInit ==
    /\ num_threads \in 0..MaxWorkers
    /\ counter = 0
    /\ pool = "unbuilt"
    /\ worker_pc = [w \in 1..num_threads |-> "waiting"]
    /\ test_id = [w \in 1..num_threads |-> None]
    /\ test_dir = [w \in 1..num_threads |-> None]
    /\ run_result = [w \in 1..num_threads |-> None]
    /\ closure_result = [w \in 1..num_threads |-> None]
    /\ batch_result = None
    /\ DecIdle /\ CmpIdle /\ RegIdle /\ MinIdle /\ StdIdle /\ TokIdle /\ PipeIdle

SpecParallel == ParInit /\ [][ParNext]_vars

\* ---- properties of the batch ----
\* The instances that have fetched their id.
Started == {w \in Instances : IsSome(test_id[w])}

\* C26: under every interleaving the instances that have started hold
\* pairwise distinct ids, the ids handed out so far are exactly
\* 0..(number started - 1), so 0..N-1 once all N have started, and no two
\* instances have the same test directory.
C26_DistinctTestIds ==
    /\ \A v, w \in Started : v # w => Unwrap(test_id[v]) # Unwrap(test_id[w])
    /\ {Unwrap(test_id[w]) : w \in Started} = 0..(Cardinality(Started) - 1)
    /\ counter = Cardinality(Started)
    /\ \A w \in Started : IsSome(test_dir[w]) /\ Len(Unwrap(test_dir[w])) = 11
    /\ \A v, w \in Started : v # w => Unwrap(test_dir[v]) # Unwrap(test_dir[w])

\* Witness of C26: a full batch has returned and the ids were not handed out
\* in the order of the instances.
C26_Witness ==
    /\ batch_result = Some("Ok")
    /\ num_threads = MaxWorkers
    /\ Started = Instances
    /\ Unwrap(test_id[1]) > Unwrap(test_id[2])

\* C27: no closure returns an error, so an instance that has not started can
\* always start whatever the others returned, and once the pool is built the
\* batch returns only after all N instances have started and finished, with
\* Ok.
C27_FailureStaysLocal ==
    /\ \A w \in Instances : closure_result[w] # Some("Err")
    /\ \A w \in Instances :
          (pool = "built" /\ worker_pc[w] = "waiting") => FetchIdGuard(w)
    /\ (pool = "built" /\ IsSome(batch_result)) =>
          /\ batch_result = Some("Ok")
          /\ \A w \in Instances :
                worker_pc[w] = "finished" /\ IsSome(test_id[w]) /\ IsSome(run_result[w])

\* Witness of C27: a batch of several instances returned Ok although one of
\* them failed, and another ran to a successful end.
C27_Witness ==
    /\ batch_result = Some("Ok")
    /\ num_threads >= 2
    /\ \E w \in Instances : run_result[w] = Some("Err")
    /\ \E w \in Instances : run_result[w] = Some("Ok")
-----------------------------------------------------------------------------
(***************************************************************************)
(* process_assembly_file  (src/src/main.rs)                                *)
(*                                                                         *)
(* The builds, simulator runs, parses and file writes are the environment: *)
(* each succeeds or fails, and a parse that succeeds yields one of a few   *)
(* outputs.  The comparisons, the retry decision and the minimizer are the *)
(* operators of the sections above.                                        *)
(***************************************************************************)
\* has_rocket_only_illegal_instructions
has_rocket_only_illegal_instructions(diff) ==
    \E k \in 1..Len(diff.categorized_summary) :
        diff.categorized_summary[k].category = OnlyInSimulatorCategory("Rocket", U64(2))

\* get_rocket_illegal_instruction_originals: the sorted, de-duplicated list,
\* given by the set of its elements.
get_rocket_illegal_instruction_originals(diff) ==
    {Unwrap(diff.categorized_summary[k].pc_instruction_traces[i]).original_instruction :
        <<k, i>> \in {p \in (1..Len(diff.categorized_summary)) \X (1..4) :
            /\ diff.categorized_summary[p[1]].category
                  = OnlyInSimulatorCategory("Rocket", U64(2))
            /\ p[2] <= Len(diff.categorized_summary[p[1]].pc_instruction_traces)
            /\ IsSome(diff.categorized_summary[p[1]].pc_instruction_traces[p[2]])}}

\* has_register_differences
has_register_differences(reg_diff) ==
    reg_diff.int_registers_diff # <<>> \/ reg_diff.float_registers_diff # <<>>

\* extract_differing_registers: format!("x{}", idx) for the integer
\* differences, then format!("f{}", idx) for the float differences.
extract_differing_registers(reg_diff) ==
    [k \in 1..Len(reg_diff.int_registers_diff) |->
        <<"x">> \o DecimalDigits(reg_diff.int_registers_diff[k][1])]
    \o
    [k \in 1..Len(reg_diff.float_registers_diff) |->
        <<"f">> \o DecimalDigits(reg_diff.float_registers_diff[k][1])]

\* compare_standard_execution_outputs: the diffs it can return, one for each
\* value compare_exception_dump_lists can return.  The statistics part of the
\* diff, which process_assembly_file does not read, is left out.
compare_standard_execution_outputs(output1, output2) ==
    {[exceptions_diff |-> IF is_empty(ex) THEN None ELSE Some(ex),
      register_dump_diff |->
          IF IsSome(output1.register_dump) /\ IsSome(output2.register_dump)
          THEN LET rd == compare_registers_dumps(Unwrap(output1.register_dump),
                                                 Unwrap(output2.register_dump),
                                                 output1.emulator_type,
                                                 output2.emulator_type)
               IN  IF RegistersDumpDiff_is_empty(rd) THEN None ELSE Some(rd)
          ELSE None] :
        ex \in compare_exception_dump_lists(output1.exceptions, output2.exceptions,
                                            output1.emulator_type, output2.emulator_type)}

\* Mutant of ShouldRetry: auto_retry is not consulted.
ShouldRetry_ignoreAutoRetry(retry, diff) ==
    /\ IsSome(diff.exceptions_diff)
    /\ has_rocket_only_illegal_instructions(Unwrap(diff.exceptions_diff))
    /\ get_rocket_illegal_instruction_originals(Unwrap(diff.exceptions_diff)) # {}

\* The two tests that guard the retry: rocket_has_illegal_instructions &&
\* auto_retry, then !illegal_instructions.is_empty().
ShouldRetry(retry, diff) ==
    /\ IsSome(diff.exceptions_diff)
    /\ has_rocket_only_illegal_instructions(Unwrap(diff.exceptions_diff))
    /\ retry
    /\ get_rocket_illegal_instruction_originals(Unwrap(diff.exceptions_diff)) # {}

\* The tests that guard the minimizer: a register diff that is present, not
\* empty, with integer or float differences and a non-empty register list.
ShouldMinimize(diff) ==
    /\ IsSome(diff.register_dump_diff)
    /\ ~RegistersDumpDiff_is_empty(Unwrap(diff.register_dump_diff))
    /\ has_register_differences(Unwrap(diff.register_dump_diff))
    /\ extract_differing_registers(Unwrap(diff.register_dump_diff)) # <<>>

\* ---- the environment ----
\* What the two run_emulator calls and the two parses of a stage can come
\* to: a parse is attempted only on the output of a run that succeeded.
RunAndParseFailures(stage) ==
    {s \cup r : s \in {{}, {<<stage, "Spike", "run">>}, {<<stage, "Spike", "parse">>}},
                r \in {{}, {<<stage, "Rocket", "run">>}, {<<stage, "Rocket", "parse">>}}}

\* The outputs a successful parse can yield.
SpikeOutputs ==
    {[emulator_type |-> "Spike", exceptions |-> ex, register_dump |-> rd] :
        ex \in {<<>>, <<ExceptionDump(4096, 2, 0, 0, 1, 160,
                                       Some(InstructionTrace(U64(4096), "ecall")))>>},
        rd \in {None, Some(RegistersDump(0, 0, None, None)),
                Some(RegistersDump(0, 0, Some(RegisterFile(0)), Some(U64(0))))}}

RocketOutputs ==
    {[emulator_type |-> "Rocket", exceptions |-> ex, register_dump |-> rd] :
        ex \in {<<>>,
                <<ExceptionDump(4096, 2, 0, 0, 0, 0, None)>>,
                <<ExceptionDump(4096, 2, 0, 0, 1, 160,
                                Some(InstructionTrace(U64(4096), "ecall")))>>},
        rd \in {None, Some(RegistersDump(0, 0, None, None)),
                Some(RegistersDump(1, 0, None, None)),
                Some(RegistersDump(0, 1, None, None)),
                Some(RegistersDump(0, 0, Some(RegisterFile(1)), Some(U64(0))))}}

\* The user-code instruction lists the retry assembly can hold.
RetryInstructionLists ==
    {<<>>, <<InstructionTexts[1]>>, <<InstructionTexts[1], InstructionTexts[4]>>,
     <<InstructionTexts[6]>>}

\* ---- the steps ----
PaReturn(r) == pa_pc' = "returned" /\ pa_result' = Some(r)

\* build_elf, the two run_emulator calls and the two parses.  A failed build
\* is returned by `?`; a failed run or parse leaves its output None, and the
\* function warns and returns Ok.
BuildRunParse ==
    /\ pa_pc = "start"
    /\ \/ /\ PaReturn("Err")
          /\ UNCHANGED pa_failures
       \/ \E f \in RunAndParseFailures("initial") :
             /\ pa_failures' = pa_failures \cup f
             /\ IF f = {} THEN pa_pc' = "parsed" /\ UNCHANGED pa_result
                ELSE PaReturn("Ok")
    /\ UNCHANGED <<format, auto_retry, initial_diff, new_diff, retry_count,
                   minimizer_calls, minimal_runs, decVars, cmpVars, regVars, minVars,
                   stdVars, tokVars, parVars>>

\* OutputFormat::Standard with both outputs parsed: compare, write the diff
\* (a failed write is returned by `?`), decide on the retry.
CompareInitial ==
    /\ pa_pc = "parsed"
    /\ format = "Standard"
    /\ \E spike_out \in SpikeOutputs, rocket_out \in RocketOutputs :
       \E d \in compare_standard_execution_outputs(spike_out, rocket_out) :
          /\ initial_diff' = Some(d)
          /\ \/ PaReturn("Err")
             \/ IF ShouldRetry(auto_retry, d)
                THEN pa_pc' = "retry" /\ UNCHANGED pa_result
                ELSE PaReturn("Ok")
    /\ UNCHANGED <<format, auto_retry, pa_failures, new_diff, retry_count,
                   minimizer_calls, minimal_runs, decVars, cmpVars, regVars, minVars,
                   stdVars, tokVars, parVars>>

\* OutputFormat::Debug and OutputFormat::Common with both outputs parsed:
\* compare, write the diff, return.  These diffs are not modelled.
CompareOther ==
    /\ pa_pc = "parsed"
    /\ format # "Standard"
    /\ \/ PaReturn("Err")
       \/ PaReturn("Ok")
    /\ UNCHANGED <<format, auto_retry, pa_failures, initial_diff, new_diff, retry_count,
                   minimizer_calls, minimal_runs, decVars, cmpVars, regVars, minVars,
                   stdVars, tokVars, parVars>>

\* The retry: remove the illegal instructions, build, run, parse.
Retry ==
    /\ pa_pc = "retry"
    /\ retry_count' = retry_count + 1
    /\ \/ /\ PaReturn("Err")
          /\ UNCHANGED pa_failures
       \/ \E f \in RunAndParseFailures("retry") :
             /\ pa_failures' = pa_failures \cup f
             /\ IF f = {} THEN pa_pc' = "retry_parsed" /\ UNCHANGED pa_result
                ELSE PaReturn("Ok")
    /\ UNCHANGED <<format, auto_retry, initial_diff, new_diff, minimizer_calls,
                   minimal_runs, decVars, cmpVars, regVars, minVars, stdVars, tokVars,
                   parVars>>

\* Both retry outputs parsed: compare, write the diff and the report, and
\* when the register diff asks for it read the retry assembly and minimize.
CompareRetry ==
    /\ pa_pc = "retry_parsed"
    /\ \E spike_out \in SpikeOutputs, rocket_out \in RocketOutputs :
       \E d \in compare_standard_execution_outputs(spike_out, rocket_out) :
          /\ new_diff' = Some(d)
          /\ \/ /\ PaReturn("Err")
                /\ UNCHANGED minimizer_calls
             \/ IF ShouldMinimize(d)
                THEN \E user_instructions \in RetryInstructionLists :
                        LET differing_regs ==
                                extract_differing_registers(Unwrap(d.register_dump_diff))
                            minimal_instructions ==
                                extract_minimal_instructions_for_regs(user_instructions,
                                                                      differing_regs)
                        IN  /\ minimizer_calls' =
                                  Append(minimizer_calls,
                                         [file |-> "retry_output.S",
                                          insts |-> user_instructions,
                                          target_regs |-> differing_regs,
                                          result |-> minimal_instructions])
                            /\ IF minimal_instructions # <<>>
                               THEN pa_pc' = "minimal" /\ UNCHANGED pa_result
                               ELSE PaReturn("Ok")
                ELSE PaReturn("Ok") /\ UNCHANGED minimizer_calls
    /\ UNCHANGED <<format, auto_retry, pa_failures, initial_diff, retry_count,
                   minimal_runs, decVars, cmpVars, regVars, minVars, stdVars, tokVars,
                   parVars>>

\* generate_minimal_assembly_for_analysis and run_minimal_analysis: build,
\* run, parse, compare, write.  A failed write or build is returned by `?`
\* (the write of the assembly before run_minimal_analysis is called, the
\* others within it); a failed run or parse is warned about and the function
\* returns Ok.
MinimalAnalysis ==
    /\ pa_pc = "minimal"
    /\ \/ /\ PaReturn("Err")
          /\ UNCHANGED <<minimal_runs, pa_failures>>
       \/ /\ minimal_runs' = minimal_runs + 1
          /\ \E f \in RunAndParseFailures("minimal") :
                /\ pa_failures' = pa_failures \cup f
                /\ \/ PaReturn("Ok")
                   \/ f = {} /\ PaReturn("Err")
    /\ UNCHANGED <<format, auto_retry, initial_diff, new_diff, retry_count,
                   minimizer_calls, decVars, cmpVars, regVars, minVars, stdVars, tokVars,
                   parVars>>

PipeNext ==
    \/ BuildRunParse \/ CompareInitial \/ CompareOther
    \/ Retry \/ CompareRetry \/ MinimalAnalysis

PipeInit ==
    /\ format \in {"Standard", "Debug", "Common"}
    /\ auto_retry \in BOOLEAN
    /\ pa_pc = "start"
    /\ pa_failures = {}
    /\ initial_diff = None /\ new_diff = None
    /\ retry_count = 0 /\ minimizer_calls = <<>> /\ minimal_runs = 0
    /\ pa_result = None
    /\ DecIdle /\ CmpIdle /\ RegIdle /\ MinIdle /\ StdIdle /\ TokIdle /\ ParIdle

SpecPipeline == PipeInit /\ [][PipeNext]_vars

\* ---- properties of the pipeline ----
\* C28: process_assembly_file does not complete with Ok when a simulator run
\* or the parse of a simulator's output has failed.
C28_FailuresAreReported ==
    pa_result = Some("Ok") => pa_failures = {}

\* The failures of `?`-guarded steps are reported: once the function has
\* returned Err no later step has run, and it returns at most once.
C28_ReturnsOnce ==
    /\ IsSome(pa_result) <=> pa_pc = "returned"
    /\ (pa_failures # {} /\ IsSome(pa_result)) => pa_result = Some("Ok")

\* The diff holds a group OnlyInSimulator{Rocket, mcause = 2} with at least
\* one traced original instruction.
HasTracedRocketIllegalGroup(diff) ==
    /\ IsSome(diff.exceptions_diff)
    /\ \E k \in 1..Len(Unwrap(diff.exceptions_diff).categorized_summary) :
          LET g == Unwrap(diff.exceptions_diff).categorized_summary[k]
          IN  /\ g.category.kind = "OnlyInSimulator"
              /\ g.category.simulator = "Rocket"
              /\ g.category.mcause = U64(2)
              /\ \E i \in 1..Len(g.pc_instruction_traces) :
                    IsSome(g.pc_instruction_traces[i])

\* C29: at most one retry, at most one call of the minimizer and at most one
\* minimal-analysis run, in that order; a retry only for the Standard format
\* with auto_retry set and a traced Rocket-only illegal-instruction group in
\* the initial diff; the minimizer only after the retry, on the instructions
\* of the retry assembly, and only when the retry's register diff holds
\* integer or float register differences; the minimal analysis only on a
\* non-empty result of the minimizer.
C29_OneRetryThenOneMinimalRun ==
    /\ retry_count <= 1
    /\ Len(minimizer_calls) <= 1
    /\ minimal_runs <= 1
    /\ retry_count = 1 =>
          /\ format = "Standard"
          /\ auto_retry
          /\ IsSome(initial_diff)
          /\ HasTracedRocketIllegalGroup(Unwrap(initial_diff))
    /\ IsSome(new_diff) => retry_count = 1
    /\ Len(minimizer_calls) = 1 =>
          /\ retry_count = 1
          /\ IsSome(new_diff)
          /\ minimizer_calls[1].file = "retry_output.S"
          /\ IsSome(Unwrap(new_diff).register_dump_diff)
          /\ LET rd == Unwrap(Unwrap(new_diff).register_dump_diff)
             IN  /\ rd.int_registers_diff # <<>> \/ rd.float_registers_diff # <<>>
                 /\ {minimizer_calls[1].target_regs[k] :
                        k \in 1..Len(minimizer_calls[1].target_regs)}
                    = {<<"x">> \o DecimalDigits(rd.int_registers_diff[k][1]) :
                          k \in 1..Len(rd.int_registers_diff)}
                      \cup {<<"f">> \o DecimalDigits(rd.float_registers_diff[k][1]) :
                               k \in 1..Len(rd.float_registers_diff)}
    /\ minimal_runs = 1 =>
          /\ Len(minimizer_calls) = 1
          /\ minimizer_calls[1].result # <<>>
    /\ pa_pc = "minimal" =>
          Len(minimizer_calls) = 1 /\ minimal_runs = 0

\* Witness of C29: the function has returned after a retry, a call of the
\* minimizer and the minimal-analysis run.
C29_Witness ==
    /\ pa_pc = "returned"
    /\ retry_count = 1
    /\ Len(minimizer_calls) = 1
    /\ minimal_runs = 1

=============================================================================
